---- MODULE Spec2Model ----
(***************************************************************************)
(* A model of sasakiy84/xbrl-extractor: the month-span classification, the *)
(* two document aggregators (extract_financial_statements_from_xbrl_v2.py  *)
(* and the legacy extract_financial_statements_from_xbrl.py), the          *)
(* statement extractors of xbrl_utils.py, a run of the v2 script (its main *)
(* process, its pool of workers and process_company_folder), and the       *)
(* summary builder aggregate_company_metadata.py.                          *)
(*                                                                         *)
(* Dates are written as the number YYYYMMDD, so that the order of the      *)
(* numbers is the order of the datetimes and the month is a digit group.   *)
(* durationTo / instant dates are arelle's endDatetime / instantDatetime,  *)
(* i.e. the midnight that ends the reported day: a period that ends on     *)
(* 2022-12-31 has durationTo 2023-01-01.                                   *)
(***************************************************************************)
EXTENDS Integers, Sequences, FiniteSets, TLC

VARIABLES
    pc,                               \* position of the script being run
    from_month, to_month,             \* arguments of calc_month_duration
    month_duration,                   \* its return value
    pipeline,                         \* "v2" | "v1": which aggregator script runs
    financial_statements_documents,   \* v2: argument of aggregate_financial_statements
    buckets,                          \* v2: the 14 local lists after the bucketing loop
    aggregated,                       \* v2: the AggregatedFinancialStatement returned
    financial_statements_list,        \* v1: argument of aggreagete_financial_statements
    aggregatedV1,                     \* v1: the AggregatedFinancialStatements returned
    concepts,                         \* the ModelConcepts of a role: qname, balance, label
    to_child,                         \* relationshipSet(...).fromModelObject: concept -> children
    facts,                            \* context id -> concept -> "value" | "nil" | "none" | "same" | "differ"
    resolved,                         \* the BS / PL / CFConcept object: its class and,
                                      \* once __init__ has run, its attributes
    instances,                        \* what extract_instances returned
    XBRL_ARCHIVE_FILES,               \* v2 main: the company folders left to process
    archives,                         \* company folder name -> what each *_xbrl.zip does
    metadata,                         \* company folder name -> edinetCode of its metadata.json
    filesystem,                       \* result path -> the file there
    main_process,                     \* the main process: position, interrupt
    futures,                          \* one per submitted company: the worker's task
    company,                          \* summary builder: the SimpleCompany loaded from JSON
    heap,                             \* address -> AccountingItem object (its items)
    latest,                           \* latest_annual_statements, latest_pl, latest_bs, latest_cf
    summarized_companies              \* the SummarizedCompany objects appended so far

vars == <<pc, from_month, to_month, month_duration, pipeline,
          financial_statements_documents, buckets, aggregated,
          financial_statements_list, aggregatedV1,
          concepts, to_child, facts, resolved, instances,
          XBRL_ARCHIVE_FILES, archives, metadata, filesystem, main_process, futures,
          company, heap, latest, summarized_companies>>

monthVars == <<from_month, to_month, month_duration>>
aggVars == <<pipeline, financial_statements_documents, buckets, aggregated,
             financial_statements_list, aggregatedV1>>
extractVars == <<concepts, to_child, facts, resolved, instances>>
runVars == <<XBRL_ARCHIVE_FILES, archives, metadata, filesystem, main_process, futures>>
summaryVars == <<company, heap, latest, summarized_companies>>

\* Value of a variable that has not been assigned yet (Python: unbound / None).
None == "None"

(***************************************************************************)
(* Bounds of the model.                                                    *)
(***************************************************************************)
\* Total number of statement instances in the filings handed to an aggregator.
MaxInst == 2
\* Number of filings (documents) of the company.
MaxDocs == 2

(***************************************************************************)
(* Generic sequence helpers.                                               *)
(***************************************************************************)
RECURSIVE SeqToSet(_)
SeqToSet(s) == IF s = <<>> THEN {} ELSE {Head(s)} \cup SeqToSet(Tail(s))

RECURSIVE Concat(_)
\* itertools-style flattening of a sequence of sequences.
Concat(ss) == IF ss = <<>> THEN <<>> ELSE Head(ss) \o Concat(Tail(ss))

\* datetime.month of a date written YYYYMMDD.
month(d) == (d \div 100) % 100

(***************************************************************************)
(* calc_month_duration  (v2 lines 156-168, v1 lines 457-469)               *)
(***************************************************************************)
\* Faulty variant: the branch from_month == to_month is dropped.
calc_month_duration_mut(from_m, to_m) ==
    IF from_m < to_m THEN to_m - from_m ELSE 12 - from_m + to_m

\* The three-way branch of lines 164-168.
calc_month_duration(from_m, to_m) ==
    IF from_m = to_m THEN 0
    ELSE IF from_m < to_m THEN to_m - from_m
    ELSE 12 - from_m + to_m

(***************************************************************************)
(* sorted(xs, key=lambda x: x.<by>): Python's sort is stable.              *)
(***************************************************************************)
\* xs is sorted by <by>; x goes after every element whose key is <= its key.
InsertStable(xs, x, by) ==
    LET k == Cardinality({i \in 1..Len(xs) : xs[i][by] <= x[by]})
    IN  SubSeq(xs, 1, k) \o <<x>> \o SubSeq(xs, k + 1, Len(xs))

RECURSIVE sorted_by(_, _)
sorted_by(xs, by) ==
    IF xs = <<>> THEN <<>>
    ELSE InsertStable(sorted_by(SubSeq(xs, 1, Len(xs) - 1), by), xs[Len(xs)], by)

(***************************************************************************)
(* aggregate_financial_statements  (v2 lines 171-352)                      *)
(*                                                                         *)
(* A PLInstance / CFInstance is [kind, id, consolidated, durationFrom,     *)
(* durationTo, docSubmissionDate], a BSInstance is [kind, id,              *)
(* consolidated, period, docSubmissionDate]; id stands for the rest of the *)
(* instance (its item trees, unit and roleType).  A                        *)
(* FinancialStatementDocument is [pl, bs, cf]: the aggregator reads no     *)
(* other field of it.                                                      *)
(* docSubmissionDate is the field lines 245, 285 and 311 compare; the      *)
(* instance classes of xbrl_utils.py (lines 482-489, 684-697, 996-1004)    *)
(* do not declare it, the aggregator is written against instances that     *)
(* carry it, so it is an input field here.                                 *)
(***************************************************************************)
\* Faulty variant: a span of 9 months is not taken as quarterly.
bucket_of_mut(inst) ==
    LET md == calc_month_duration(month(inst.durationFrom), month(inst.durationTo))
    IN  IF md = 0 THEN "annual"
        ELSE IF md = 6 THEN "semianual"
        ELSE IF md = 3 THEN "quarterly"
        ELSE "discarded"

\* The bucket the if / elif chain of lines 194-205 (PL) and 218-229 (CF)
\* appends an instance to; "discarded" when no branch is taken.
bucket_of(inst) ==
    LET md == calc_month_duration(month(inst.durationFrom), month(inst.durationTo))
    IN  IF md = 0 THEN "annual"
        ELSE IF md = 6 THEN "semianual"
        ELSE IF md = 3 \/ md = 9 THEN "quarterly"
        ELSE "discarded"

\* The instances the loop of line 188 visits, in order, for one list field.
instances_of(docs, field) == Concat([i \in 1..Len(docs) |-> docs[i][field]])

\* The list a local variable holds after the loop of lines 188-229.
pl_bucket(docs, field, name, consolidated) ==
    SelectSeq(instances_of(docs, field),
              LAMBDA x : bucket_of(x) = name /\ x.consolidated = consolidated)

\* Faulty variant: every balance sheet goes to both lists.
bs_bucket_mut(docs, consolidated) == instances_of(docs, "bs")

bs_bucket(docs, consolidated) ==
    SelectSeq(instances_of(docs, "bs"), LAMBDA x : x.consolidated = consolidated)

bucketing(docs) ==
    [consolidated_annual_pls       |-> pl_bucket(docs, "pl", "annual", TRUE),
     consolidated_semianual_pls    |-> pl_bucket(docs, "pl", "semianual", TRUE),
     consolidated_quarterly_pls    |-> pl_bucket(docs, "pl", "quarterly", TRUE),
     consolidated_bss              |-> bs_bucket(docs, TRUE),
     consolidated_annual_fcs       |-> pl_bucket(docs, "cf", "annual", TRUE),
     consolidated_semianual_fcs    |-> pl_bucket(docs, "cf", "semianual", TRUE),
     consolidated_quarterly_fcs    |-> pl_bucket(docs, "cf", "quarterly", TRUE),
     nonconsolidated_annual_pls    |-> pl_bucket(docs, "pl", "annual", FALSE),
     nonconsolidated_semianual_pls |-> pl_bucket(docs, "pl", "semianual", FALSE),
     nonconsolidated_quarterly_pls |-> pl_bucket(docs, "pl", "quarterly", FALSE),
     nonconsolidated_bss           |-> bs_bucket(docs, FALSE),
     nonconsolidated_annual_fcs    |-> pl_bucket(docs, "cf", "annual", FALSE),
     nonconsolidated_semianual_fcs |-> pl_bucket(docs, "cf", "semianual", FALSE),
     nonconsolidated_quarterly_fcs |-> pl_bucket(docs, "cf", "quarterly", FALSE)]

\* Faulty variant: the submission date is part of the key.
pl_key_mut(pl) == <<pl.durationFrom, pl.durationTo, pl.docSubmissionDate>>

\* pl_key / cf_key: f"{durationFrom}_{durationTo}".  The two datetimes are
\* written out and joined by "_", which no datetime contains: the string is
\* the pair.
pl_key(pl) == <<pl.durationFrom, pl.durationTo>>

cf_key(cf) == <<cf.durationFrom, cf.durationTo>>

bs_key(bs) == bs.period

\* A Python dict is a sequence of [key, val] in insertion order; assigning to
\* a key that is present keeps its place.
dict_has(d, k) == \E i \in 1..Len(d) : d[i].key = k

dict_get(d, k) == d[CHOOSE i \in 1..Len(d) : d[i].key = k].val

dict_set(d, k, v) ==
    IF dict_has(d, k)
    THEN [i \in 1..Len(d) |-> IF d[i].key = k THEN [key |-> k, val |-> v] ELSE d[i]]
    ELSE Append(d, [key |-> k, val |-> v])

dict_values(d) == [i \in 1..Len(d) |-> d[i].val]

\* Faulty variant: the later submission replaces the earlier one.
dedup_step_mut(d, k, new) ==
    IF ~dict_has(d, k) THEN dict_set(d, k, new)
    ELSE IF new.docSubmissionDate > dict_get(d, k).docSubmissionDate
         THEN dict_set(d, k, new)
         ELSE d

\* One iteration of the loop of lines 238-246 (PL), 278-286 (BS), 304-312 (CF).
dedup_step(d, k, new) ==
    IF ~dict_has(d, k) THEN dict_set(d, k, new)
    ELSE IF new.docSubmissionDate < dict_get(d, k).docSubmissionDate
         THEN dict_set(d, k, new)
         ELSE d

RECURSIVE deduplicated_pls_dict(_)
deduplicated_pls_dict(pls) ==
    IF pls = <<>> THEN <<>>
    ELSE LET pl == pls[Len(pls)]
         IN  dedup_step(deduplicated_pls_dict(SubSeq(pls, 1, Len(pls) - 1)), pl_key(pl), pl)

deduplicate_pl_with_selecting_original_doc(pls) ==
    sorted_by(dict_values(deduplicated_pls_dict(pls)), "durationFrom")

RECURSIVE deduplicated_bss_dict(_)
deduplicated_bss_dict(bss) ==
    IF bss = <<>> THEN <<>>
    ELSE LET bs == bss[Len(bss)]
         IN  dedup_step(deduplicated_bss_dict(SubSeq(bss, 1, Len(bss) - 1)), bs_key(bs), bs)

deduplicate_bs_with_selecting_original_doc(bss) ==
    sorted_by(dict_values(deduplicated_bss_dict(bss)), "period")

RECURSIVE deduplicated_fcs_dict(_)
deduplicated_fcs_dict(fcs) ==
    IF fcs = <<>> THEN <<>>
    ELSE LET cf == fcs[Len(fcs)]
         IN  dedup_step(deduplicated_fcs_dict(SubSeq(fcs, 1, Len(fcs) - 1)), cf_key(cf), cf)

deduplicate_cf_with_selecting_original_doc(fcs) ==
    sorted_by(dict_values(deduplicated_fcs_dict(fcs)), "durationFrom")

\* The AggregatedFinancialStatement built at lines 337-352 from the locals.
aggregate_result(b) ==
    [consolidatedYearlyProfitAndLossStatements |->
         deduplicate_pl_with_selecting_original_doc(b.consolidated_annual_pls),
     consolidatedSemiAnnualProfitAndLossStatements |->
         deduplicate_pl_with_selecting_original_doc(b.consolidated_semianual_pls),
     consolidatedQuarterlyProfitAndLossStatements |->
         deduplicate_pl_with_selecting_original_doc(b.consolidated_quarterly_pls),
     consolidatedBalanceSheets |->
         deduplicate_bs_with_selecting_original_doc(b.consolidated_bss),
     consolidatedYearlyCashFlowStatements |->
         deduplicate_cf_with_selecting_original_doc(b.consolidated_annual_fcs),
     consolidatedSemiAnnualCashFlowStatements |->
         deduplicate_cf_with_selecting_original_doc(b.consolidated_semianual_fcs),
     consolidatedQuarterlyCashFlowStatements |->
         deduplicate_cf_with_selecting_original_doc(b.consolidated_quarterly_fcs),
     nonConsolidatedYearlyProfitAndLossStatements |->
         deduplicate_pl_with_selecting_original_doc(b.nonconsolidated_annual_pls),
     nonConsolidatedSemiAnnualProfitAndLossStatements |->
         deduplicate_pl_with_selecting_original_doc(b.nonconsolidated_semianual_pls),
     nonConsolidatedQuarterlyProfitAndLossStatements |->
         deduplicate_pl_with_selecting_original_doc(b.nonconsolidated_quarterly_pls),
     nonConsolidatedBalanceSheets |->
         deduplicate_bs_with_selecting_original_doc(b.nonconsolidated_bss),
     nonConsolidatedYearlyCashFlowStatements |->
         deduplicate_cf_with_selecting_original_doc(b.nonconsolidated_annual_fcs),
     nonConsolidatedSemiAnnualCashFlowStatements |->
         deduplicate_cf_with_selecting_original_doc(b.nonconsolidated_semianual_fcs),
     nonConsolidatedQuarterlyCashFlowStatements |->
         deduplicate_cf_with_selecting_original_doc(b.nonconsolidated_quarterly_fcs)]

aggregate_financial_statements_of(docs) == aggregate_result(bucketing(docs))

(***************************************************************************)
(* aggreagete_financial_statements  (v1 lines 478-613)                     *)
(*                                                                         *)
(* A FinancialStatements is [docId, financialYearStartDate,                *)
(* submittionDate, PL, BS, CF]; a PL / CF entry is [kind, id, docId,       *)
(* DurationFrom, DurationTo], a BS entry is [kind, id, docId, Period].     *)
(* Strings are written as tuples of numbers: a document id is <<0, n>>,    *)
(* the key f"{DurationFrom}_{DurationTo}" is <<DurationFrom, DurationTo>>, *)
(* and the key of a balance sheet, its Period, is <<Period>>.  A document  *)
(* id is therefore never equal to a period key, as in the program.  The    *)
(* docs list of the result (lines 479-496, 612) is left out.               *)
(***************************************************************************)
pl_keyV1(pl) == <<pl.DurationFrom, pl.DurationTo>>

cf_keyV1(cf) == <<cf.DurationFrom, cf.DurationTo>>

bs_keyV1(bs) == <<bs.Period>>

\* doc_id_to_doc[docId] (lines 480-494): the last document with that id.
doc_id_to_doc(fsl, docId) ==
    fsl[CHOOSE i \in 1..Len(fsl) :
            /\ fsl[i].docId = docId
            /\ \A j \in (i + 1)..Len(fsl) : fsl[j].docId # docId]

instances_ofV1(fsl, field) == Concat([i \in 1..Len(fsl) |-> fsl[i][field]])

\* The local lists of lines 498-534, each then sorted (lines 536-538, 560,
\* 580-582).
pl_bucketV1(fsl, field, name) ==
    sorted_by(SelectSeq(instances_ofV1(fsl, field),
                        LAMBDA x : calc_month_duration(month(x.DurationFrom),
                                                       month(x.DurationTo))
                                   \in (CASE name = "annual" -> {0}
                                          [] name = "semianual" -> {6}
                                          [] OTHER -> {3, 9})),
              "DurationFrom")

bs_bucketV1(fsl) == sorted_by(instances_ofV1(fsl, "BS"), "Period")

\* One iteration of the loops of lines 543-551, 565-573, 587-595.  The
\* membership test uses the period key k, every store uses the document id;
\* d is [err, d]: err is set when dict[x.docId] is read and is not there.
dedup_stepV1(r, k, x, fsl) ==
    IF r.err THEN r
    ELSE IF ~dict_has(r.d, k)
    THEN [err |-> FALSE, d |-> dict_set(r.d, x.docId, x)]
    ELSE IF ~dict_has(r.d, x.docId)
    THEN [err |-> TRUE, d |-> r.d]
    ELSE LET new_doc == doc_id_to_doc(fsl, x.docId)
             old_doc == doc_id_to_doc(fsl, dict_get(r.d, x.docId).docId)
         IN  IF new_doc.financialYearStartDate < old_doc.financialYearStartDate
             THEN [err |-> FALSE, d |-> dict_set(r.d, x.docId, x)]
             ELSE r

RECURSIVE deduplicated_pls_dictV1(_, _)
deduplicated_pls_dictV1(pls, fsl) ==
    IF pls = <<>> THEN [err |-> FALSE, d |-> <<>>]
    ELSE LET pl == pls[Len(pls)]
         IN  dedup_stepV1(deduplicated_pls_dictV1(SubSeq(pls, 1, Len(pls) - 1), fsl),
                          pl_keyV1(pl), pl, fsl)

RECURSIVE deduplicated_bss_dictV1(_, _)
deduplicated_bss_dictV1(bss, fsl) ==
    IF bss = <<>> THEN [err |-> FALSE, d |-> <<>>]
    ELSE LET bs == bss[Len(bss)]
         IN  dedup_stepV1(deduplicated_bss_dictV1(SubSeq(bss, 1, Len(bss) - 1), fsl),
                          bs_keyV1(bs), bs, fsl)

RECURSIVE deduplicated_fcs_dictV1(_, _)
deduplicated_fcs_dictV1(fcs, fsl) ==
    IF fcs = <<>> THEN [err |-> FALSE, d |-> <<>>]
    ELSE LET cf == fcs[Len(fcs)]
         IN  dedup_stepV1(deduplicated_fcs_dictV1(SubSeq(fcs, 1, Len(fcs) - 1), fsl),
                          cf_keyV1(cf), cf, fsl)

\* [err, list]: the list returned, or err when the loop raised KeyError.
deduplicate_pl_with_selecting_original_docV1(pls, fsl) ==
    LET r == deduplicated_pls_dictV1(pls, fsl)
    IN  [err |-> r.err, list |-> sorted_by(dict_values(r.d), "DurationFrom")]

deduplicate_bs_with_selecting_original_docV1(bss, fsl) ==
    LET r == deduplicated_bss_dictV1(bss, fsl)
    IN  [err |-> r.err, list |-> sorted_by(dict_values(r.d), "Period")]

deduplicate_cf_with_selecting_original_docV1(fcs, fsl) ==
    LET r == deduplicated_fcs_dictV1(fcs, fsl)
    IN  [err |-> r.err, list |-> sorted_by(dict_values(r.d), "DurationFrom")]

\* The AggregatedFinancialStatements of lines 604-613, or "KeyError".
aggreagete_financial_statements_of(fsl) ==
    LET apl == deduplicate_pl_with_selecting_original_docV1(pl_bucketV1(fsl, "PL", "annual"), fsl)
        spl == deduplicate_pl_with_selecting_original_docV1(pl_bucketV1(fsl, "PL", "semianual"), fsl)
        qpl == deduplicate_pl_with_selecting_original_docV1(pl_bucketV1(fsl, "PL", "quarterly"), fsl)
        bss == deduplicate_bs_with_selecting_original_docV1(bs_bucketV1(fsl), fsl)
        acf == deduplicate_cf_with_selecting_original_docV1(pl_bucketV1(fsl, "CF", "annual"), fsl)
        scf == deduplicate_cf_with_selecting_original_docV1(pl_bucketV1(fsl, "CF", "semianual"), fsl)
        qcf == deduplicate_cf_with_selecting_original_docV1(pl_bucketV1(fsl, "CF", "quarterly"), fsl)
    IN  [raised |-> apl.err \/ spl.err \/ qpl.err \/ bss.err \/ acf.err \/ scf.err \/ qcf.err,
         yearlyProfitAndLossStatements     |-> apl.list,
         semiAnnualProfitAndLossStatements |-> spl.list,
         quarterlyProfitAndLossStatements  |-> qpl.list,
         balanceSheets                     |-> bss.list,
         yearlyCashFlowStatements          |-> acf.list,
         semiAnnualCashFlowStatements      |-> scf.list,
         quarterlyCashFlowStatements       |-> qcf.list]

(***************************************************************************)
(* Inputs of the aggregators.                                              *)
(***************************************************************************)
\* (durationFrom, durationTo) of the reported periods.  A period that ends
\* on 2022-12-31 has durationTo 2023-01-01.
Year2022 == <<20220101, 20230101>>

Year2021 == <<20210101, 20220101>>

FirstHalf2022 == <<20220101, 20220701>>

FirstQuarter2022 == <<20220101, 20220401>>

ThreeQuarters2022 == <<20220101, 20221001>>

TwoMonths2022 == <<20220101, 20220301>>

PLPeriods ==
    { Year2022, Year2021, FirstHalf2022, FirstQuarter2022, ThreeQuarters2022,
      TwoMonths2022 }

CFPeriods == { Year2022, FirstHalf2022, ThreeQuarters2022, TwoMonths2022 }

\* Instant dates of the balance sheets.
BSPeriods == { <<20230101>>, <<20220101>> }

SubmissionDates == { 20230101, 20230601 }

\* What one reported statement of a kind is drawn from: every period as a
\* consolidated statement of a filing of the first date, and the main period
\* with either flag in a filing of either date.
SlotsOfKind(kind, periods, main) ==
    [kind : {kind}, p : periods, consolidated : {TRUE},
     docSubmissionDate : {20230101}]
    \cup [kind : {kind}, p : {main}, consolidated : BOOLEAN,
          docSubmissionDate : SubmissionDates]

SlotsV2 ==
    SlotsOfKind("pl", PLPeriods, Year2022)
    \cup SlotsOfKind("cf", CFPeriods, Year2022)
    \cup SlotsOfKind("bs", BSPeriods, <<20230101>>)

SlotsV1 ==
    [kind : {"PL"}, p : {Year2022, Year2021, FirstQuarter2022, ThreeQuarters2022}]
    \cup [kind : {"CF"}, p : {Year2022}]
    \cup [kind : {"BS"}, p : BSPeriods]

InstanceV2(slot, id) ==
    IF slot.kind = "bs"
    THEN [kind |-> "bs", id |-> id, consolidated |-> slot.consolidated,
          period |-> slot.p[1], docSubmissionDate |-> slot.docSubmissionDate]
    ELSE [kind |-> slot.kind, id |-> id, consolidated |-> slot.consolidated,
          durationFrom |-> slot.p[1], durationTo |-> slot.p[2],
          docSubmissionDate |-> slot.docSubmissionDate]

InstanceV1(slot, id, docId) ==
    IF slot.kind = "BS"
    THEN [kind |-> "BS", id |-> id, docId |-> docId, Period |-> slot.p[1]]
    ELSE [kind |-> slot.kind, id |-> id, docId |-> docId,
          DurationFrom |-> slot.p[1], DurationTo |-> slot.p[2]]

\* The ways to hand n statements, in order, to nd filings.
DocCuts(n, nd) ==
    { c \in [1..n -> 1..nd] : \A i \in 1..n, j \in 1..n : i < j => c[i] <= c[j] }

\* The numbers i of the statements of filing d that are of the given kind.
SlotsOfDoc(slots, c, d, kind) ==
    SelectSeq([i \in 1..Len(slots) |-> i],
              LAMBDA i : c[i] = d /\ slots[i].kind = kind)

DocV2(slots, c, d) ==
    LET list(kind) == LET ix == SlotsOfDoc(slots, c, d, kind)
                      IN  [k \in 1..Len(ix) |-> InstanceV2(slots[ix[k]], ix[k])]
    IN  [pl |-> list("pl"), bs |-> list("bs"), cf |-> list("cf")]

DocV1(slots, c, d, hdr) ==
    LET list(kind) == LET ix == SlotsOfDoc(slots, c, d, kind)
                      IN  [k \in 1..Len(ix) |-> InstanceV1(slots[ix[k]], ix[k], <<0, d>>)]
    IN  [docId |-> <<0, d>>,
         financialYearStartDate |-> hdr.financialYearStartDate,
         submittionDate |-> hdr.submittionDate,
         PL |-> list("PL"), BS |-> list("BS"), CF |-> list("CF")]

\* A filing of the fiscal year 2022, and one of the fiscal year 2023.
HeadersV1 ==
    { [financialYearStartDate |-> 20220101, submittionDate |-> 20230101],
      [financialYearStartDate |-> 20230101, submittionDate |-> 20230601] }

IdleExtract ==
    /\ concepts = <<>>
    /\ to_child = <<>>
    /\ facts = <<>>
    /\ resolved = [class |-> None]
    /\ instances = None

IdleRun ==
    /\ XBRL_ARCHIVE_FILES = <<>>
    /\ archives = <<>>
    /\ metadata = <<>>
    /\ filesystem = <<>>
    /\ main_process = [pc |-> None]
    /\ futures = <<>>

IdleSummary ==
    /\ company = None
    /\ heap = <<>>
    /\ latest = None
    /\ summarized_companies = <<>>

IdleMonth == from_month = 0 /\ to_month = 0 /\ month_duration = None

IdleAgg ==
    /\ pipeline = None
    /\ financial_statements_documents = <<>>
    /\ buckets = None
    /\ aggregated = None
    /\ financial_statements_list = <<>>
    /\ aggregatedV1 = None

(***************************************************************************)
(* calc_month_duration, called on every pair of months.                    *)
(***************************************************************************)
InitMonth ==
    /\ pc = "start"
    /\ from_month \in 1..12
    /\ to_month \in 1..12
    /\ month_duration = None
    /\ IdleAgg
    /\ IdleExtract
    /\ IdleRun
    /\ IdleSummary

CalcMonthDuration ==
    /\ pc = "start"
    /\ month_duration = None
    /\ from_month \in 1..12
    /\ month_duration' = calc_month_duration(from_month, to_month)
    /\ pc' = "done"
    /\ UNCHANGED <<from_month, to_month>>
    /\ UNCHANGED aggVars
    /\ UNCHANGED extractVars
    /\ UNCHANGED runVars
    /\ UNCHANGED summaryVars

NextMonth == CalcMonthDuration

SpecMonth == InitMonth /\ [][NextMonth]_vars

(***************************************************************************)
(* The aggregators, called on every list of filings within the bounds.     *)
(***************************************************************************)
InitV2 ==
    /\ pipeline = "v2"
    /\ \E n \in 0..MaxInst, nd \in 1..MaxDocs :
         \E slots \in [1..n -> SlotsV2], c \in DocCuts(n, nd) :
            financial_statements_documents = [d \in 1..nd |-> DocV2(slots, c, d)]
    /\ financial_statements_list = <<>>

InitV1 ==
    /\ pipeline = "v1"
    /\ \E n \in 0..MaxInst, nd \in 1..MaxDocs :
         \E slots \in [1..n -> SlotsV1], c \in DocCuts(n, nd), hdr \in [1..nd -> HeadersV1] :
            financial_statements_list = [d \in 1..nd |-> DocV1(slots, c, d, hdr[d])]
    /\ financial_statements_documents = <<>>

InitAgg ==
    /\ pc = "start"
    /\ IdleMonth
    /\ InitV2 \/ InitV1
    /\ buckets = None
    /\ aggregated = None
    /\ aggregatedV1 = None
    /\ IdleExtract
    /\ IdleRun
    /\ IdleSummary

aggregate_financial_statements ==
    /\ pc = "start"
    /\ pipeline = "v2"
    /\ LET b == bucketing(financial_statements_documents)
       IN  /\ buckets' = b
           /\ aggregated' = aggregate_result(b)
    /\ pc' = "done"
    /\ UNCHANGED <<pipeline, financial_statements_documents,
                   financial_statements_list, aggregatedV1>>
    /\ UNCHANGED monthVars
    /\ UNCHANGED extractVars
    /\ UNCHANGED runVars
    /\ UNCHANGED summaryVars

aggreagete_financial_statements ==
    /\ pc = "start"
    /\ pipeline = "v1"
    /\ LET r == aggreagete_financial_statements_of(financial_statements_list)
       IN  /\ aggregatedV1' = r
           /\ pc' = IF r.raised THEN "raised" ELSE "done"
    /\ UNCHANGED <<pipeline, financial_statements_documents, buckets, aggregated,
                   financial_statements_list>>
    /\ UNCHANGED monthVars
    /\ UNCHANGED extractVars
    /\ UNCHANGED runVars
    /\ UNCHANGED summaryVars

NextAgg == aggregate_financial_statements \/ aggreagete_financial_statements

SpecAgg == InitAgg /\ [][NextAgg]_vars

(***************************************************************************)
(* Properties of calc_month_duration.                                      *)
(***************************************************************************)
\* C1: calc_month_duration(from_month, to_month) is the cyclic month span
\* (to_month - from_month) mod 12 for every pair of months in 1..12; the
\* result is in 0..11, and span(3,6)=3, span(12,1)=1, span(2,1)=11,
\* span(12,12)=0, span(10,1)=3.
C1_CyclicMonthSpan ==
    pc = "done" =>
        /\ month_duration = (to_month - from_month) % 12
        /\ month_duration \in 0..11
        /\ (from_month = 3 /\ to_month = 6) => month_duration = 3
        /\ (from_month = 12 /\ to_month = 1) => month_duration = 1
        /\ (from_month = 2 /\ to_month = 1) => month_duration = 11
        /\ (from_month = 12 /\ to_month = 12) => month_duration = 0
        /\ (from_month = 10 /\ to_month = 1) => month_duration = 3

\* The call on December and January has returned.
C1_Witness ==
    pc = "done" /\ from_month = 12 /\ to_month = 1 /\ month_duration = 1

(***************************************************************************)
(* Properties of aggregate_financial_statements (v2).                      *)
(***************************************************************************)
DoneV2 == pc = "done" /\ pipeline = "v2"

\* Every instance of the filings handed to the aggregator.
InputInstances ==
    SeqToSet(instances_of(financial_statements_documents, "pl"))
    \cup SeqToSet(instances_of(financial_statements_documents, "bs"))
    \cup SeqToSet(instances_of(financial_statements_documents, "cf"))

\* The class the month span of a period selects, from the months alone.
SpanClass(x) ==
    IF x.kind = "bs" THEN "instant"
    ELSE LET span == (month(x.durationTo) - month(x.durationFrom)) % 12
         IN  CASE span = 0 -> "yearly"
               [] span = 6 -> "semiannual"
               [] span \in {3, 9} -> "quarterly"
               [] OTHER -> "none"

\* The deduplication key of an instance: the period it reports.
PeriodKey(x) ==
    IF x.kind = "bs" THEN <<x.period>> ELSE <<x.durationFrom, x.durationTo>>

\* The 14 series: statement kind, span class, consolidated flag, the local
\* list of the bucketing loop and the field of the result.
Series(kind, cls, consolidated, local, series) ==
    [kind |-> kind, cls |-> cls, consolidated |-> consolidated,
     local |-> local, series |-> series]

SeriesTable ==
    { Series("pl", "yearly", TRUE, "consolidated_annual_pls",
             "consolidatedYearlyProfitAndLossStatements"),
      Series("pl", "semiannual", TRUE, "consolidated_semianual_pls",
             "consolidatedSemiAnnualProfitAndLossStatements"),
      Series("pl", "quarterly", TRUE, "consolidated_quarterly_pls",
             "consolidatedQuarterlyProfitAndLossStatements"),
      Series("bs", "instant", TRUE, "consolidated_bss", "consolidatedBalanceSheets"),
      Series("cf", "yearly", TRUE, "consolidated_annual_fcs",
             "consolidatedYearlyCashFlowStatements"),
      Series("cf", "semiannual", TRUE, "consolidated_semianual_fcs",
             "consolidatedSemiAnnualCashFlowStatements"),
      Series("cf", "quarterly", TRUE, "consolidated_quarterly_fcs",
             "consolidatedQuarterlyCashFlowStatements"),
      Series("pl", "yearly", FALSE, "nonconsolidated_annual_pls",
             "nonConsolidatedYearlyProfitAndLossStatements"),
      Series("pl", "semiannual", FALSE, "nonconsolidated_semianual_pls",
             "nonConsolidatedSemiAnnualProfitAndLossStatements"),
      Series("pl", "quarterly", FALSE, "nonconsolidated_quarterly_pls",
             "nonConsolidatedQuarterlyProfitAndLossStatements"),
      Series("bs", "instant", FALSE, "nonconsolidated_bss", "nonConsolidatedBalanceSheets"),
      Series("cf", "yearly", FALSE, "nonconsolidated_annual_fcs",
             "nonConsolidatedYearlyCashFlowStatements"),
      Series("cf", "semiannual", FALSE, "nonconsolidated_semianual_fcs",
             "nonConsolidatedSemiAnnualCashFlowStatements"),
      Series("cf", "quarterly", FALSE, "nonconsolidated_quarterly_fcs",
             "nonConsolidatedQuarterlyCashFlowStatements") }

PLCFSeries == { r \in SeriesTable : r.kind # "bs" }

\* The series an instance belongs to.
Selects(x, r) ==
    r.kind = x.kind /\ r.cls = SpanClass(x) /\ r.consolidated = x.consolidated

Occurrences(list, x) == Cardinality({ i \in 1..Len(list) : list[i] = x })

\* C2: every PL and CF instance is placed by its month span into exactly the
\* bucket the span selects (0 yearly, 6 semiannual, 3 or 9 quarterly) of the
\* series of its consolidated flag, where its period is then represented; an
\* instance of any other span appears in none of the 12 PL/CF series, and the
\* call does not fail because of it.
C2_PlacedBySpan ==
    /\ pipeline = "v2" => pc \in {"start", "done"}
    /\ DoneV2 =>
         \A r \in PLCFSeries :
            /\ \A x \in InputInstances :
                  /\ Occurrences(buckets[r.local], x) = IF Selects(x, r) THEN 1 ELSE 0
                  /\ Selects(x, r) =>
                        \E e \in SeqToSet(aggregated[r.series]) : PeriodKey(e) = PeriodKey(x)
                  /\ ~Selects(x, r) => Occurrences(aggregated[r.series], x) = 0
            /\ SeqToSet(aggregated[r.series]) \subseteq SeqToSet(buckets[r.local])

\* The filings held a statement of nine months, now in a quarterly series,
\* and one of two months.
C2_Witness ==
    /\ DoneV2
    /\ \E x \in InputInstances, r \in PLCFSeries :
          /\ Selects(x, r)
          /\ PeriodKey(x) = ThreeQuarters2022
          /\ Occurrences(aggregated[r.series], x) = 1
    /\ \E x \in InputInstances : x.kind # "bs" /\ PeriodKey(x) = TwoMonths2022

\* C3: no series returned by aggregate_financial_statements holds two
\* entries of the same deduplication key: (durationFrom, durationTo) for PL
\* and CF, the instant date for BS.
C3_NoDuplicateKey ==
    DoneV2 =>
        \A r \in SeriesTable :
            LET s == aggregated[r.series]
            IN  \A i \in 1..Len(s), j \in 1..Len(s) :
                    PeriodKey(s[i]) = PeriodKey(s[j]) => i = j

\* Two instances of one bucket had the same key and one entry was returned.
C3_Witness ==
    /\ DoneV2
    /\ \E r \in SeriesTable :
          /\ \E i \in 1..Len(buckets[r.local]), j \in 1..Len(buckets[r.local]) :
                i # j /\ PeriodKey(buckets[r.local][i]) = PeriodKey(buckets[r.local][j])
          /\ Len(aggregated[r.series]) = 1

IndexPermutations(n) == { p \in [1..n -> 1..n] : \A i, j \in 1..n : p[i] = p[j] => i = j }

Permuted(s) == { [i \in 1..Len(s) |-> s[p[i]]] : p \in IndexPermutations(Len(s)) }

ReorderedDoc(d) ==
    { [pl |-> a, bs |-> b, cf |-> c] :
          a \in Permuted(d.pl), b \in Permuted(d.bs), c \in Permuted(d.cf) }

Reorderings(docs) ==
    UNION { Permuted(ds) :
                ds \in { g \in [1..Len(docs) -> UNION { ReorderedDoc(docs[i]) : i \in 1..Len(docs) }] :
                             \A i \in 1..Len(docs) : g[i] \in ReorderedDoc(docs[i]) } }

\* C7: aggregate_financial_statements is independent of the input order: for
\* every permutation of the list of filings and of the instances inside a
\* filing it returns the same 14 series, with the same entries in the same
\* order, also when colliding instances have equal submission dates.
C7_OrderIndependent ==
    DoneV2 =>
        \A ds \in Reorderings(financial_statements_documents) :
            aggregate_financial_statements_of(ds) = aggregated

\* The order of two period keys: by durationFrom, then by durationTo.
KeyLeq(a, b) == a[1] < b[1] \/ (a[1] = b[1] /\ (Len(a) = 1 \/ a[2] <= b[2]))

\* C8: every series returned by aggregate_financial_statements is sorted
\* ascending by its period key: PL and CF series are non-decreasing in the
\* (durationFrom, durationTo) pair, BS series in the instant date.
C8_SortedByPeriodKey ==
    DoneV2 =>
        \A r \in SeriesTable :
            LET s == aggregated[r.series]
            IN  \A i \in 1..Len(s), j \in 1..Len(s) :
                    i < j => KeyLeq(PeriodKey(s[i]), PeriodKey(s[j]))

(***************************************************************************)
(* Properties of aggreagete_financial_statements (v1).                     *)
(***************************************************************************)
DoneV1 == pc = "done" /\ pipeline = "v1"

InputInstancesV1 ==
    SeqToSet(instances_ofV1(financial_statements_list, "PL"))
    \cup SeqToSet(instances_ofV1(financial_statements_list, "BS"))
    \cup SeqToSet(instances_ofV1(financial_statements_list, "CF"))

PeriodKeyV1(x) ==
    IF x.kind = "BS" THEN <<x.Period>> ELSE <<x.DurationFrom, x.DurationTo>>

\* The series of the result an instance belongs to, None for a discarded span.
SeriesV1(x) ==
    IF x.kind = "BS" THEN "balanceSheets"
    ELSE LET span == (month(x.DurationTo) - month(x.DurationFrom)) % 12
             pl == x.kind = "PL"
         IN  CASE span = 0 ->
                    IF pl THEN "yearlyProfitAndLossStatements"
                    ELSE "yearlyCashFlowStatements"
               [] span = 6 ->
                    IF pl THEN "semiAnnualProfitAndLossStatements"
                    ELSE "semiAnnualCashFlowStatements"
               [] span \in {3, 9} ->
                    IF pl THEN "quarterlyProfitAndLossStatements"
                    ELSE "quarterlyCashFlowStatements"
               [] OTHER -> None

FilingOf(x) ==
    CHOOSE d \in SeqToSet(financial_statements_list) : d.docId = x.docId

\* C5: in the v1 aggregator, when two PL (or BS, or CF) instances of
\* different filings have the same period key, exactly one entry of that key
\* is in the output series, and its filing has the earlier
\* financialYearStartDate.
C5_EarlierFiscalYearKept ==
    (pipeline = "v1" /\ pc # "start") =>
        /\ pc = "done"
        /\ \A x \in InputInstancesV1, y \in InputInstancesV1 :
              ( /\ x.docId # y.docId
                /\ x.kind = y.kind
                /\ PeriodKeyV1(x) = PeriodKeyV1(y)
                /\ SeriesV1(x) # None ) =>
                    LET s == aggregatedV1[SeriesV1(x)]
                        kept == { i \in 1..Len(s) : PeriodKeyV1(s[i]) = PeriodKeyV1(x) }
                    IN  /\ Cardinality(kept) = 1
                        /\ \A i \in kept :
                              /\ FilingOf(s[i]).financialYearStartDate
                                     <= FilingOf(x).financialYearStartDate
                              /\ FilingOf(s[i]).financialYearStartDate
                                     <= FilingOf(y).financialYearStartDate

(***************************************************************************)
(* The scenario of the two filings of the year 2022.                       *)
(***************************************************************************)
\* Filing a was submitted on 2023-01-01, filing b on 2023-06-01; each holds
\* one PL of the year 2022, of the same consolidation scope, and nothing else.
ScenarioV2(a, b) ==
    /\ pipeline = "v2"
    /\ Len(financial_statements_documents) = 2
    /\ {a, b} = {1, 2}
    /\ LET A == financial_statements_documents[a]
           B == financial_statements_documents[b]
       IN  /\ Len(A.pl) = 1 /\ Len(B.pl) = 1
           /\ A.bs = <<>> /\ B.bs = <<>> /\ A.cf = <<>> /\ B.cf = <<>>
           /\ PeriodKey(A.pl[1]) = Year2022 /\ PeriodKey(B.pl[1]) = Year2022
           /\ A.pl[1].docSubmissionDate = 20230101
           /\ B.pl[1].docSubmissionDate = 20230601
           /\ A.pl[1].consolidated = B.pl[1].consolidated

\* The same in the v1 pipeline: filing a has the fiscal year start
\* 2022-01-01, filing b 2023-01-01.
ScenarioV1(a, b) ==
    /\ pipeline = "v1"
    /\ Len(financial_statements_list) = 2
    /\ {a, b} = {1, 2}
    /\ LET A == financial_statements_list[a]
           B == financial_statements_list[b]
       IN  /\ Len(A.PL) = 1 /\ Len(B.PL) = 1
           /\ A.BS = <<>> /\ B.BS = <<>> /\ A.CF = <<>> /\ B.CF = <<>>
           /\ PeriodKeyV1(A.PL[1]) = Year2022 /\ PeriodKeyV1(B.PL[1]) = Year2022
           /\ A.submittionDate = 20230101 /\ A.financialYearStartDate = 20220101
           /\ B.submittionDate = 20230601 /\ B.financialYearStartDate = 20230101

\* The yearly PL series of the v2 result holds the statement of filing a only.
C6_ScenarioV2KeepsFilingA ==
    \A a \in 1..2, b \in 1..2 :
        (DoneV2 /\ ScenarioV2(a, b)) =>
            LET A == financial_statements_documents[a]
                s == IF A.pl[1].consolidated
                     THEN aggregated.consolidatedYearlyProfitAndLossStatements
                     ELSE aggregated.nonConsolidatedYearlyProfitAndLossStatements
            IN  s = <<A.pl[1]>>

\* The yearly PL series of the v1 result holds the statement of filing a only.
C6_ScenarioV1KeepsFilingA ==
    \A a \in 1..2, b \in 1..2 :
        (pipeline = "v1" /\ pc # "start" /\ ScenarioV1(a, b)) =>
            /\ pc = "done"
            /\ aggregatedV1.yearlyProfitAndLossStatements
                   = <<financial_statements_list[a].PL[1]>>

\* C6: filing A (submitted 2023-01-01, fiscal year start 2022-01-01) reports
\* the annual PL of 2022-01-01..2022-12-31 and filing B (submitted
\* 2023-06-01, fiscal year start 2023-01-01) reports the same period as a
\* comparative column: the aggregated yearly PL series holds exactly one
\* entry for that period, the instance of filing A, in either pipeline.
C6_ScenarioKeepsFilingA == C6_ScenarioV2KeepsFilingA /\ C6_ScenarioV1KeepsFilingA

(***************************************************************************)
(* xbrl_utils.py: FinancialStatementConcept.                               *)
(*                                                                         *)
(* The concepts of a role are numbered 1..Len(concepts); concept 1 is the  *)
(* root concept.  facts[context][concept] says what the instance document  *)
(* reports for the concept in the context: one fact with a value, one nil  *)
(* fact, or no fact.  An optional value (X | None) is a sequence of length *)
(* at most one; exc is the exception a call raised, None when it returned. *)
(* An AccountingItem is [name, qname, balance, value, items, obj]: obj is  *)
(* the identity of the object, the same for two references to one object.  *)
(***************************************************************************)
Raise(e) == [exc |-> e, item |-> <<>>]

Return(optional_item) == [exc |-> None, item |-> optional_item]

\* fact.xValue of the fact of a concept in a context: the amount reported
\* for the concept, shifted by the period of the context.
xValue(concept, context) ==
    (IF context \in {"CurrentYearDuration", "CurrentYearInstant"} THEN 100 ELSE 200)
        + concepts[concept].amount

\* xbrl_model.factsByQname[concept.qname] filtered by the context: the list
\* of facts that facts[context][concept] stands for.  sValue is <<>> for
\* the empty string of a nil fact.
facts_of(concept, context) ==
    LET kind == facts[context][concept]
        one == [sValue |-> <<xValue(concept, context)>>, isNil |-> FALSE,
                xValue |-> xValue(concept, context)]
    IN  CASE kind = "value"  -> <<one>>
          [] kind = "nil"    -> <<[sValue |-> <<>>, isNil |-> TRUE, xValue |-> 0]>>
          [] kind = "same"   -> <<one, one>>
          [] kind = "differ" -> <<one, [one EXCEPT !.sValue = <<one.xValue + 1>>,
                                                  !.xValue = one.xValue + 1]>>
          [] OTHER           -> <<>>

\* What the callers read of a returned ModelFact: isNil and xValue.
returned_fact(fact) ==
    [exc |-> None, fact |-> IF fact.isNil THEN "nil" ELSE "value", xValue |-> fact.xValue]

\* Lines 357-365 on the filtered list of facts.
unique_fact(fs) ==
    IF Len(fs) = 1 THEN returned_fact(fs[1])
    ELSE IF \E a, b \in 1..Len(fs) : a < b /\ fs[a].sValue # fs[b].sValue
    THEN [exc |-> "ValueError", fact |-> "none", xValue |-> 0]
    ELSE IF fs = <<>> THEN [exc |-> "IndexError", fact |-> "none", xValue |-> 0]
    ELSE returned_fact(fs[1])

\* Faulty variant: the first fact is returned without comparing the facts.
get_unique_fact_by_concept_and_context_mut(concept, context) ==
    LET fs == facts_of(concept, context)
    IN  IF fs = <<>> THEN [exc |-> "IndexError", fact |-> "none", xValue |-> 0]
        ELSE returned_fact(fs[1])

\* _get_unique_fact_by_concept_and_context: a single fact is returned as it
\* is; otherwise two facts of different sValue raise ValueError, and
\* facts[0] of an empty list raises IndexError.
get_unique_fact_by_concept_and_context(concept, context) ==
    unique_fact(facts_of(concept, context))

\* The first exception of a sequence of results, None if there is none.
first_exc(rs) ==
    IF \A k \in 1..Len(rs) : rs[k].exc = None THEN None
    ELSE rs[CHOOSE k \in 1..Len(rs) :
                /\ rs[k].exc # None
                /\ \A j \in 1..(k - 1) : rs[j].exc = None].exc

\* The depth of recursion at which the interpreter raises RecursionError
\* (sys.getrecursionlimit(), scaled to the size of the inputs: deeper than
\* every tree of concepts).
RecursionLimit == 6

RECURSIVE extract_items_at(_, _, _)
\* _extract_items(parent_concept, context) called from the concepts of path,
\* that is at the depth Len(path) + 1 of the recursion.  The function calls
\* itself for every child concept with nothing that remembers the concepts
\* on the way; the only end of a cycle of concepts with values is the
\* RecursionError of the interpreter.  Every call that returns an item
\* builds a new AccountingItem object: obj tells the objects apart, by the
\* context and the way the call was reached.
extract_items_at(parent_concept, context, path) ==
    LET parent_fact == get_unique_fact_by_concept_and_context(parent_concept, context)
    IN  IF Len(path) + 1 > RecursionLimit THEN Raise("RecursionError")
        ELSE IF parent_fact.exc # None THEN Raise(parent_fact.exc)
        ELSE IF parent_fact.fact = "nil" THEN Return(<<>>)
        ELSE LET child_concepts == to_child[parent_concept]
                 child_item == [k \in 1..Len(child_concepts) |->
                                    extract_items_at(child_concepts[k], context,
                                                     Append(path, parent_concept))]
             IN  IF first_exc(child_item) # None THEN Raise(first_exc(child_item))
                 ELSE Return(<<[name    |-> concepts[parent_concept].label,
                                qname   |-> concepts[parent_concept].qname,
                                balance |-> concepts[parent_concept].balance,
                                value   |-> parent_fact.xValue,
                                items   |-> Concat([k \in 1..Len(child_concepts) |->
                                                        child_item[k].item]),
                                obj     |-> [context |-> context,
                                             path |-> Append(path, parent_concept)]]>>)

\* _extract_items(parent_concept, context) as extract_instances calls it.
extract_items(parent_concept, context) == extract_items_at(parent_concept, context, <<>>)

STANDARD_CONTEXT_ID_FIRST_ITEM ==
    { "CurrentYear", "Interim",
      "Prior1Year", "Prior1Interim", "Prior2Year", "Prior2Interim",
      "Prior3Year", "Prior3Interim", "Prior4Year", "Prior4Interim",
      "Prior5Year", "Prior5Interim", "Prior6Year", "Prior6Interim",
      "Prior7Year", "Prior7Interim", "Prior8Year", "Prior8Interim" }

STANDARD_CONTEXT_ID_SECOND_ITEM == { "Instant", "Duration" }

STANDARD_CONTEXT_ID_THIRD_ITEM == { "", "_NonConsolidatedMember" }

STANDARD_CONTEXT_ID ==
    { first_item \o second_item \o third_item :
          first_item \in STANDARD_CONTEXT_ID_FIRST_ITEM,
          second_item \in STANDARD_CONTEXT_ID_SECOND_ITEM,
          third_item \in STANDARD_CONTEXT_ID_THIRD_ITEM }

is_standard_context(context) == context \in STANDARD_CONTEXT_ID

\* What a context id can carry after its period: nothing, or the member of
\* a segment breakdown.
SegmentMembers ==
    { "", "_jpcrp030000-asr_E00034-000RealEstateReportableSegmentsMember" }

\* is_consolidated_fact: "_NonConsolidatedMember" not in fact.contextID.
\* The ids of the model are a period, then the marker or not, then a member
\* or not.
is_consolidated_fact(contextID) ==
    contextID \notin
        { first_item \o second_item \o "_NonConsolidatedMember" \o member :
              first_item \in STANDARD_CONTEXT_ID_FIRST_ITEM,
              second_item \in STANDARD_CONTEXT_ID_SECOND_ITEM,
              member \in SegmentMembers }

\* Faulty variant: the contexts of the other scope are not left out.
get_context_used_in_concept_mut(concept, consolidated) ==
    { context \in DOMAIN facts :
          /\ facts[context][concept] # "none"
          /\ is_standard_context(context) }

\* get_context_used_in_concept: the contexts of the facts of the concept
\* that pass the two filters of lines 265-268.
get_context_used_in_concept(concept, consolidated) ==
    { context \in DOMAIN facts :
          /\ facts[context][concept] # "none"
          /\ is_consolidated_fact(context) = consolidated
          /\ is_standard_context(context) }

RECURSIVE contexts_used_in_all_root_concepts(_, _)
\* FinancialStatementConcept.__init__, lines 326-334: the set of the first
\* root concept, intersected with the set of every further one.  The list
\* of root concepts is not empty (lines 305-306).
contexts_used_in_all_root_concepts(root_concepts, consolidated) ==
    LET last == get_context_used_in_concept(root_concepts[Len(root_concepts)],
                                            consolidated)
    IN  IF Len(root_concepts) = 1 THEN last
        ELSE contexts_used_in_all_root_concepts(
                 SubSeq(root_concepts, 1, Len(root_concepts) - 1), consolidated)
             \cap last

\* The concepts no relationship of the role leads to.
rootConcepts ==
    SelectSeq([j \in 1..Len(concepts) |-> j],
              LAMBDA j : \A i \in 1..Len(concepts) : j \notin SeqToSet(to_child[i]))

\* list(a_set): the elements of the set in some order.
list_of(S) ==
    { l \in [1..Cardinality(S) -> S] : \A i, j \in 1..Cardinality(S) : l[i] = l[j] => i = j }

search_unique_concept_by_qname_or_none(cs, qname) ==
    LET searched_concepts == { c \in SeqToSet(cs) : concepts[c].qname \in qname }
    IN  IF Cardinality(searched_concepts) = 1
        THEN [exc |-> None, concept |-> <<CHOOSE c \in searched_concepts : TRUE>>]
        ELSE IF Cardinality(searched_concepts) > 1
        THEN [exc |-> "ValueError", concept |-> <<>>]
        ELSE [exc |-> None, concept |-> <<>>]

(***************************************************************************)
(* xbrl_utils.py: PLConcept.                                               *)
(***************************************************************************)
pl_root_qnames == {"jppfs_cor:ProfitLoss", "jpigp_cor:ProfitLossIFRS"}

\* Faulty variant: the children of the root concepts are not searched.
search_pl_root_concept_mut(root_concepts) ==
    LET first == search_unique_concept_by_qname_or_none(root_concepts, pl_root_qnames)
    IN  IF first.exc = None /\ first.concept = <<>>
        THEN [exc |-> "ValueError", concept |-> <<>>]
        ELSE first

\* PLConcept.__init__ after super().__init__: [exc, concept].
search_pl_root_concept(root_concepts) ==
    LET first == search_unique_concept_by_qname_or_none(root_concepts, pl_root_qnames)
        root_child_concepts ==
            Concat([k \in 1..Len(root_concepts) |-> to_child[root_concepts[k]]])
        second == search_unique_concept_by_qname_or_none(root_child_concepts, pl_root_qnames)
    IN  IF first.exc # None \/ first.concept # <<>> THEN first
        ELSE IF second.exc = None /\ second.concept = <<>>
        THEN [exc |-> "ValueError", concept |-> <<>>]
        ELSE second

\* Faulty variant: only the item itself is looked at, not its descendants.
is_decendant_items_balance_all_same_mut(balance, current_item) ==
    current_item.balance = balance

RECURSIVE is_decendant_items_balance_all_same(_, _)
\* False as soon as the item or one of its descendants has another balance.
is_decendant_items_balance_all_same(balance, current_item) ==
    IF current_item.balance # balance THEN FALSE
    ELSE \A k \in 1..Len(current_item.items) :
             is_decendant_items_balance_all_same(balance, current_item.items[k])

RECURSIVE get_qname_item_recursively(_, _)
\* The first item, depth first, whose qname is one of qname; <<>> for None.
get_qname_item_recursively(current_item, qname) ==
    IF current_item.qname \in qname THEN <<current_item>>
    ELSE LET result == [k \in 1..Len(current_item.items) |->
                            get_qname_item_recursively(current_item.items[k], qname)]
             found == { k \in 1..Len(result) : result[k] # <<>> }
         IN  IF found = {} THEN <<>>
             ELSE result[CHOOSE k \in found : \A j \in found : k <= j]

\* Faulty variant: the ordinary income is returned whether or not it has a
\* bank item below it.
extract_ordinaly_income_bnk_mut(parent_item) ==
    get_qname_item_recursively(parent_item, {"jppfs_cor:OrdinaryIncome"})

\* _extract_ordinaly_income_bnk: the first ordinary income, if a bank item is
\* found from it.
extract_ordinaly_income_bnk(parent_item) ==
    LET operating_income_item ==
            get_qname_item_recursively(parent_item, {"jppfs_cor:OrdinaryIncome"})
    IN  IF operating_income_item = <<>> THEN <<>>
        ELSE IF get_qname_item_recursively(
                    operating_income_item[1],
                    {"jppfs_cor:OrdinaryIncomeBNK", "jppfs_cor:OrdinaryExpensesBNK"}) = <<>>
        THEN <<>>
        ELSE operating_income_item

\* _extract_operating_income: <<>> for None.
extract_operating_income(parent_item) ==
    LET operating_income_item ==
            get_qname_item_recursively(
                parent_item, {"jppfs_cor:OperatingIncome", "jpigp_cor:OperatingProfitLossIFRS"})
    IN  IF operating_income_item # <<>> THEN operating_income_item
        ELSE extract_ordinaly_income_bnk(parent_item)

RECURSIVE extract_expenses_and_net_sales_recursively(_)
\* [expenses, net_sales] appended while current_item is visited.  The two
\* lists the program threads through the recursion are only appended to, in
\* visiting order, so what a subtree adds is the concatenation of what its
\* children add.
extract_expenses_and_net_sales_recursively(current_item) ==
    IF is_decendant_items_balance_all_same("debit", current_item)
    THEN [expenses |-> <<current_item>>, net_sales |-> <<>>]
    ELSE IF is_decendant_items_balance_all_same("credit", current_item)
    THEN [expenses |-> <<>>, net_sales |-> <<current_item>>]
    ELSE LET sub == [k \in 1..Len(current_item.items) |->
                         extract_expenses_and_net_sales_recursively(current_item.items[k])]
         IN  [expenses  |-> Concat([k \in 1..Len(sub) |-> sub[k].expenses]),
              net_sales |-> Concat([k \in 1..Len(sub) |-> sub[k].net_sales])]

\* Faulty variant: the classification starts at the items below the operating
\* income, so the operating income itself is never listed.
extract_expenses_and_net_sales_mut(operating_income) ==
    LET sub == [k \in 1..Len(operating_income.items) |->
                    extract_expenses_and_net_sales_recursively(operating_income.items[k])]
    IN  [expenses  |-> Concat([k \in 1..Len(sub) |-> sub[k].expenses]),
         net_sales |-> Concat([k \in 1..Len(sub) |-> sub[k].net_sales])]

\* _extract_expenses_and_net_sales: the recursion starts at the operating
\* income with two empty lists.
extract_expenses_and_net_sales(operating_income) ==
    extract_expenses_and_net_sales_recursively(operating_income)

\* The body of the loop of PLConcept.extract_instances for one context:
\* [exc, instance].
pl_instance(context) ==
    LET pl_root_concept == resolved.pl_root_concept[1]
        pl_root_fact == get_unique_fact_by_concept_and_context(pl_root_concept, context)
        profit_and_loss_item == extract_items(pl_root_concept, context)
        operating_income_item == extract_operating_income(profit_and_loss_item.item[1])
        both == extract_expenses_and_net_sales(operating_income_item[1])
    IN  IF pl_root_fact.exc # None THEN [exc |-> pl_root_fact.exc, instance |-> <<>>]
        ELSE IF profit_and_loss_item.exc # None
        THEN [exc |-> profit_and_loss_item.exc, instance |-> <<>>]
        ELSE IF profit_and_loss_item.item = <<>>
        THEN [exc |-> "ValueError", instance |-> <<>>]
        ELSE IF operating_income_item = <<>>
        THEN [exc |-> "ValueError", instance |-> <<>>]
        ELSE [exc |-> None,
              instance |-> <<[operatingIncome |-> operating_income_item[1],
                              expenses        |-> both.expenses,
                              netSales        |-> both.net_sales,
                              profitAndLoss   |-> profit_and_loss_item.item[1],
                              context         |-> context]>>]

RECURSIVE pl_extract_instances(_)
\* PLConcept.extract_instances over the contexts: [exc, instances].
pl_extract_instances(contexts) ==
    IF contexts = <<>> THEN [exc |-> None, instances |-> <<>>]
    ELSE LET before == pl_extract_instances(SubSeq(contexts, 1, Len(contexts) - 1))
             one == pl_instance(contexts[Len(contexts)])
         IN  IF before.exc # None THEN before
             ELSE IF one.exc # None THEN [exc |-> one.exc, instances |-> <<>>]
             ELSE [exc |-> None, instances |-> before.instances \o one.instance]

(***************************************************************************)
(* Inputs of the extractors: the concept trees and the facts.              *)
(***************************************************************************)
\* Number of concepts of a role.
MaxNodes == 4

ContextIds == {"CurrentYearDuration", "Prior1YearDuration"}

\* The parent of every concept: 0 for the root, an earlier concept otherwise.
Parents(n) ==
    { parent \in [1..n -> 0..n] :
          parent[1] = 0 /\ \A i \in 2..n : parent[i] \in 1..(i - 1) }

\* The children of every concept, in relationship order.
ChildrenOf(n, parent) ==
    [i \in 1..n |-> SelectSeq([j \in 1..n |-> j], LAMBDA j : parent[j] = i)]

\* One concept at most has a nil fact or no fact in the current context.
Faults(n) ==
    {[node |-> 0, kind |-> "value"]} \cup [node : 1..n, kind : {"nil", "none"}]

FactsWith(n, fault, prior) ==
    [context \in ContextIds |->
        IF context = "CurrentYearDuration"
        THEN [i \in 1..n |-> IF i = fault.node THEN fault.kind ELSE "value"]
        ELSE [i \in 1..n |-> IF prior THEN "value" ELSE "none"]]

\* Concepts of a profit and loss statement besides the named ones.
PLQNames ==
    <<"jppfs_cor:ProfitLoss", "jppfs_cor:NetSales", "jppfs_cor:CostOfSales",
      "jppfs_cor:SellingGeneralAndAdministrativeExpenses",
      "jppfs_cor:NonOperatingIncome", "jppfs_cor:NonOperatingExpenses",
      "jppfs_cor:ExtraordinaryIncome", "jppfs_cor:ExtraordinaryLoss">>

Balances == {"debit", "credit", None}

IdleRest == IdleMonth /\ IdleAgg

InitPL ==
    /\ pc = "new"
    /\ IdleRest
    /\ IdleRun
    /\ IdleSummary
    /\ \E n \in 1..MaxNodes :
         \E parent \in Parents(n), operating \in (0..n) \ {1},
            balance \in [2..n -> Balances], fault \in Faults(n), prior \in BOOLEAN :
            /\ concepts =
                 [i \in 1..n |->
                    LET qname == IF i = operating THEN "jppfs_cor:OperatingIncome"
                                 ELSE PLQNames[i]
                    IN  [qname |-> qname, label |-> qname, amount |-> i,
                         balance |-> IF i = 1 THEN "credit" ELSE balance[i]]]
            /\ to_child = ChildrenOf(n, parent)
            /\ facts = FactsWith(n, fault, prior)
    /\ resolved = [class |-> "PLConcept"]
    /\ instances = None

PLConcept_init ==
    /\ pc = "new"
    /\ LET root_concepts == rootConcepts
           found == search_pl_root_concept(root_concepts)
       IN  \E contexts \in list_of(contexts_used_in_all_root_concepts(root_concepts, TRUE)) :
              /\ resolved' = [class |-> "PLConcept", root_concepts |-> root_concepts,
                              contexts |-> contexts, pl_root_concept |-> found.concept]
              /\ pc' = IF found.exc # None THEN "not_constructed" ELSE "constructed"
    /\ UNCHANGED <<concepts, to_child, facts, instances>>
    /\ UNCHANGED monthVars
    /\ UNCHANGED aggVars
    /\ UNCHANGED runVars
    /\ UNCHANGED summaryVars

PLConcept_extract_instances ==
    /\ pc = "constructed"
    /\ LET r == pl_extract_instances(resolved.contexts)
       IN  /\ instances' = r
           /\ pc' = IF r.exc # None THEN "raised" ELSE "done"
    /\ UNCHANGED <<concepts, to_child, facts, resolved>>
    /\ UNCHANGED monthVars
    /\ UNCHANGED aggVars
    /\ UNCHANGED runVars
    /\ UNCHANGED summaryVars

NextPL == PLConcept_init \/ PLConcept_extract_instances

SpecPL == InitPL /\ [][NextPL]_vars

(***************************************************************************)
(* Properties of PLConcept.extract_instances.                              *)
(***************************************************************************)
RECURSIVE ItemAndDescendants(_)
\* An item and every item below it.
ItemAndDescendants(item) ==
    {item} \cup UNION { ItemAndDescendants(item.items[k]) : k \in 1..Len(item.items) }

ReturnedPL == pc = "done" /\ resolved.class = "PLConcept"

\* C9: in every PL instance that PLConcept.extract_instances produces, every
\* item of expenses has the balance debit, itself and all of its
\* descendants, and every item of netSales has the balance credit, itself
\* and all of its descendants.
C9_ExpensesDebitNetSalesCredit ==
    ReturnedPL =>
        \A k \in 1..Len(instances.instances) :
            LET instance == instances.instances[k]
            IN  /\ \A e \in SeqToSet(instance.expenses) :
                      \A x \in ItemAndDescendants(e) : x.balance = "debit"
                /\ \A s \in SeqToSet(instance.netSales) :
                      \A x \in ItemAndDescendants(s) : x.balance = "credit"

\* An instance was produced whose operating income, of mixed balances, has
\* an expense with items below it.
C9_Witness ==
    /\ ReturnedPL
    /\ \E k \in 1..Len(instances.instances) :
          LET instance == instances.instances[k]
          IN  /\ \E e \in SeqToSet(instance.expenses) : e.items # <<>>
              /\ instance.operatingIncome.balance # "debit"

(***************************************************************************)
(* xbrl_utils.py: CFConcept.                                               *)
(***************************************************************************)
\* The search words a label contains (word in concept.label(lang=...)); the
\* Japanese synonym of each word goes with the Japanese label.
WordsIn(label) ==
    CASE label = "Net cash provided by (used in) operating activities" -> {"operating"}
      [] label = "Net cash provided by (used in) investing activities" -> {"investing"}
      [] label = "Net cash provided by (used in) financing activities" -> {"financing"}
      [] OTHER -> {}

search_unique_concept_by_label(cs, words_in_label) ==
    LET searched_concepts ==
            { c \in SeqToSet(cs) : WordsIn(concepts[c].label) \cap words_in_label # {} }
    IN  IF Cardinality(searched_concepts) = 1
        THEN [exc |-> None, concept |-> <<CHOOSE c \in searched_concepts : TRUE>>]
        ELSE IF Cardinality(searched_concepts) > 1
        THEN [exc |-> "ValueError", concept |-> <<>>]
        ELSE [exc |-> None, concept |-> <<>>]

\* Lines 1072-1085: the one AccountingItem object built before the loop over
\* the contexts.
placeholder_accounting_item ==
    [name |-> "N/A", qname |-> "N/A", balance |-> None, value |-> 0, items |-> <<>>,
     obj |-> [context |-> "N/A", path |-> <<>>]]

\* Faulty variant: no placeholder is substituted.
item_or_placeholder_mut(concept, context) ==
    IF concept = <<>> THEN Raise("AttributeError")
    ELSE extract_items(concept[1], context)

\* x_item = None; if the concept is not None: x_item = _extract_items(...);
\* if x_item is None: x_item = placeholder_accounting_item.
item_or_placeholder(concept, context) ==
    LET x_item == IF concept # <<>> THEN extract_items(concept[1], context)
                  ELSE Return(<<>>)
    IN  IF x_item.exc # None THEN x_item
        ELSE IF x_item.item = <<>> THEN Return(<<placeholder_accounting_item>>)
        ELSE x_item

\* The body of the loop of CFConcept.extract_instances for one context:
\* [exc, instance].  None.qname raises AttributeError.
cf_instance(context) ==
    LET operating_item == item_or_placeholder(resolved.root_operating_concept, context)
        investing_item == item_or_placeholder(resolved.root_investing_concept, context)
        financing_item == item_or_placeholder(resolved.root_financing_concept, context)
        operating_root_fact ==
            IF resolved.root_operating_concept = <<>>
            THEN [exc |-> "AttributeError", fact |-> "none", xValue |-> 0]
            ELSE get_unique_fact_by_concept_and_context(
                     resolved.root_operating_concept[1], context)
    IN  IF operating_item.exc # None THEN [exc |-> operating_item.exc, instance |-> <<>>]
        ELSE IF investing_item.exc # None THEN [exc |-> investing_item.exc, instance |-> <<>>]
        ELSE IF financing_item.exc # None THEN [exc |-> financing_item.exc, instance |-> <<>>]
        ELSE IF operating_root_fact.exc # None
        THEN [exc |-> operating_root_fact.exc, instance |-> <<>>]
        ELSE [exc |-> None,
              instance |-> <<[operating |-> operating_item.item[1],
                              investing |-> investing_item.item[1],
                              financing |-> financing_item.item[1],
                              context   |-> context]>>]

RECURSIVE cf_extract_instances(_)
\* CFConcept.extract_instances over the contexts: [exc, instances].
cf_extract_instances(contexts) ==
    IF contexts = <<>> THEN [exc |-> None, instances |-> <<>>]
    ELSE LET before == cf_extract_instances(SubSeq(contexts, 1, Len(contexts) - 1))
             one == cf_instance(contexts[Len(contexts)])
         IN  IF before.exc # None THEN before
             ELSE IF one.exc # None THEN [exc |-> one.exc, instances |-> <<>>]
             ELSE [exc |-> None, instances |-> before.instances \o one.instance]

\* Labels of the concepts below the root of a cash flow statement.
CFLabels ==
    { "Net cash provided by (used in) operating activities",
      "Net cash provided by (used in) investing activities",
      "Net cash provided by (used in) financing activities",
      "Effect of exchange rate change on cash and cash equivalents" }

CFQNames ==
    <<"jppfs_cor:NetIncreaseDecreaseInCashAndCashEquivalents", "jppfs_cor:CashFlowItem2",
      "jppfs_cor:CashFlowItem3", "jppfs_cor:CashFlowItem4", "jppfs_cor:CashFlowItem5",
      "jppfs_cor:CashFlowItem6", "jppfs_cor:CashFlowItem7", "jppfs_cor:CashFlowItem8">>

InitCF ==
    /\ pc = "new"
    /\ IdleRest
    /\ IdleRun
    /\ IdleSummary
    /\ \E n \in 1..MaxNodes :
         \E parent \in Parents(n), label \in [2..n -> CFLabels],
            fault \in Faults(n), prior \in BOOLEAN :
            \* the label of a concept that is not a child of the root is not read
            /\ \A i \in 2..n :
                  parent[i] # 1 =>
                      label[i] = "Effect of exchange rate change on cash and cash equivalents"
            /\ concepts =
                 [i \in 1..n |->
                    [qname |-> CFQNames[i],
                     label |-> IF i = 1
                               THEN "Net increase (decrease) in cash and cash equivalents"
                               ELSE label[i],
                     amount |-> i,
                     balance |-> None]]
            /\ to_child = ChildrenOf(n, parent)
            /\ facts = FactsWith(n, fault, prior)
    /\ resolved = [class |-> "CFConcept"]
    /\ instances = None

CFConcept_init ==
    /\ pc = "new"
    /\ LET root_concepts == <<1>>
           main_concepts == to_child[root_concepts[1]]
           root_operating_concept == search_unique_concept_by_label(main_concepts, {"operating"})
           root_investing_concept == search_unique_concept_by_label(main_concepts, {"investing"})
           root_financing_concept == search_unique_concept_by_label(main_concepts, {"financing"})
       IN  \E contexts \in list_of(contexts_used_in_all_root_concepts(root_concepts, TRUE)) :
              /\ resolved' = [class |-> "CFConcept", root_concepts |-> root_concepts,
                              contexts |-> contexts,
                              root_operating_concept |-> root_operating_concept.concept,
                              root_investing_concept |-> root_investing_concept.concept,
                              root_financing_concept |-> root_financing_concept.concept]
              /\ pc' = IF \/ root_operating_concept.exc # None
                          \/ root_investing_concept.exc # None
                          \/ root_financing_concept.exc # None
                       THEN "not_constructed" ELSE "constructed"
    /\ UNCHANGED <<concepts, to_child, facts, instances>>
    /\ UNCHANGED monthVars
    /\ UNCHANGED aggVars
    /\ UNCHANGED runVars
    /\ UNCHANGED summaryVars

CFConcept_extract_instances ==
    /\ pc = "constructed"
    /\ LET r == cf_extract_instances(resolved.contexts)
       IN  /\ instances' = r
           /\ pc' = IF r.exc # None THEN "raised" ELSE "done"
    /\ UNCHANGED <<concepts, to_child, facts, resolved>>
    /\ UNCHANGED monthVars
    /\ UNCHANGED aggVars
    /\ UNCHANGED runVars
    /\ UNCHANGED summaryVars

NextCF == CFConcept_init \/ CFConcept_extract_instances

SpecCF == InitCF /\ [][NextCF]_vars

(***************************************************************************)
(* Properties of CFConcept.extract_instances.                              *)
(***************************************************************************)
\* extract_instances of a constructed CFConcept has returned or raised.
CalledCF == pc \in {"done", "raised"} /\ resolved.class = "CFConcept"

MainConceptsWith(word) ==
    { c \in SeqToSet(to_child[1]) : word \in WordsIn(concepts[c].label) }

RECURSIVE ConceptAndDescendants(_)
ConceptAndDescendants(c) ==
    {c} \cup UNION { ConceptAndDescendants(to_child[c][k]) : k \in 1..Len(to_child[c]) }

\* The root has no financing child, and an operating child that has a fact
\* in every context of the resolved concept.
NoFinancingButOperating ==
    /\ MainConceptsWith("financing") = {}
    /\ \E c \in MainConceptsWith("operating") :
          \A k \in 1..Len(resolved.contexts) : facts[resolved.contexts[k]][c] # "none"

\* One instance per context, each with the placeholder as financing item.
PlaceholderFinancingPerContext ==
    /\ pc = "done"
    /\ Len(instances.instances) = Len(resolved.contexts)
    /\ \A k \in 1..Len(instances.instances) :
          LET financing == instances.instances[k].financing
          IN  /\ instances.instances[k].context = resolved.contexts[k]
              /\ financing.name = "N/A"
              /\ financing.qname = "N/A"
              /\ financing.value = 0
              /\ financing.items = <<>>

OperatingAndInvestingFactsPresent ==
    \A m \in MainConceptsWith("operating") \cup MainConceptsWith("investing") :
        \A c \in ConceptAndDescendants(m), k \in 1..Len(resolved.contexts) :
            facts[resolved.contexts[k]][c] # "none"

last_root_of_balance(root_concepts, balance) ==
    LET ks == { k \in 1..Len(root_concepts) :
                    concepts[root_concepts[k]].balance = balance }
    IN  IF ks = {} THEN <<>>
        ELSE <<root_concepts[CHOOSE k \in ks : \A j \in ks : j <= k]>>

\* BSConcept.__init__ after super().__init__: [exc, debit, credit].
search_bs_root_concepts(root_concepts) ==
    LET root_debit_concept == last_root_of_balance(root_concepts, "debit")
        root_credit_concept == last_root_of_balance(root_concepts, "credit")
    IN  [exc |-> IF Len(root_concepts) # 2 THEN "ValueError"
                 ELSE IF root_debit_concept = <<>> \/ root_credit_concept = <<>>
                 THEN "ValueError"
                 ELSE None,
         debit |-> root_debit_concept,
         credit |-> root_credit_concept]

\* Faulty variant: the two items of the credit side are told apart by their
\* values, the smaller one first.
liabilities_and_net_assets_mut(credit_item) ==
    IF credit_item.items[1].value <= credit_item.items[2].value
    THEN [liabilities |-> credit_item.items[1], net_assets |-> credit_item.items[2]]
    ELSE [liabilities |-> credit_item.items[2], net_assets |-> credit_item.items[1]]

\* liabilities = credit_item.items[0]; net_assets = credit_item.items[1].
liabilities_and_net_assets(credit_item) ==
    [liabilities |-> credit_item.items[1], net_assets |-> credit_item.items[2]]

\* The body of the loop of BSConcept.extract_instances for one context:
\* [exc, instance].  None.items raises AttributeError, BSInstance(assets=None)
\* a ValidationError.
bs_instance(context) ==
    LET assets == extract_items(resolved.root_debit_concept[1], context)
        credit_item == extract_items(resolved.root_credit_concept[1], context)
        debit_root_fact ==
            get_unique_fact_by_concept_and_context(resolved.root_debit_concept[1], context)
    IN  IF assets.exc # None THEN [exc |-> assets.exc, instance |-> <<>>]
        ELSE IF credit_item.exc # None THEN [exc |-> credit_item.exc, instance |-> <<>>]
        ELSE IF debit_root_fact.exc # None
        THEN [exc |-> debit_root_fact.exc, instance |-> <<>>]
        ELSE IF credit_item.item = <<>>
        THEN [exc |-> "AttributeError", instance |-> <<>>]
        ELSE IF Len(credit_item.item[1].items) # 2
        THEN [exc |-> "ValueError", instance |-> <<>>]
        ELSE IF assets.item = <<>>
        THEN [exc |-> "ValidationError", instance |-> <<>>]
        ELSE LET both == liabilities_and_net_assets(credit_item.item[1])
             IN  [exc |-> None,
                  instance |-> <<[assets       |-> assets.item[1],
                                  liabilities  |-> both.liabilities,
                                  net_assets   |-> both.net_assets,
                                  consolidated |-> resolved.consolidated,
                                  period       |-> context]>>]

RECURSIVE bs_extract_instances(_)
\* BSConcept.extract_instances over the contexts: [exc, instances].
bs_extract_instances(contexts) ==
    IF contexts = <<>> THEN [exc |-> None, instances |-> <<>>]
    ELSE LET before == bs_extract_instances(SubSeq(contexts, 1, Len(contexts) - 1))
             one == bs_instance(contexts[Len(contexts)])
         IN  IF before.exc # None THEN before
             ELSE IF one.exc # None THEN [exc |-> one.exc, instances |-> <<>>]
             ELSE [exc |-> None, instances |-> before.instances \o one.instance]

(***************************************************************************)
(* Inputs of BSConcept: a forest of concepts and the facts of four         *)
(* contexts, two of them standard and consolidated, one standard and not   *)
(* consolidated, one of a segment.                                         *)
(***************************************************************************)
BSContextIds ==
    { "CurrentYearInstant", "Prior1YearInstant",
      "CurrentYearInstant_NonConsolidatedMember",
      "CurrentYearInstant_jpcrp030000-asr_E00034-000RealEstateReportableSegmentsMember" }

\* The parent of every concept, 0 for a root concept.
Forests(n) ==
    { parent \in [1..n -> 0..n] : \A i \in 1..n : parent[i] \in 0..(i - 1) }

\* Which contexts besides the current one carry facts, and on which
\* concepts: "all" for every concept, "first" for concept 1 alone.
OtherContexts ==
    { [prior |-> "none",  nonconsolidated |-> "none", segment |-> "none"],
      [prior |-> "all",   nonconsolidated |-> "none", segment |-> "none"],
      [prior |-> "first", nonconsolidated |-> "none", segment |-> "none"],
      [prior |-> "none",  nonconsolidated |-> "all",  segment |-> "none"],
      [prior |-> "none",  nonconsolidated |-> "none", segment |-> "all"],
      [prior |-> "all",   nonconsolidated |-> "all",  segment |-> "all"] }

BSFactsWith(n, fault, other) ==
    [context \in BSContextIds |->
        LET carried == IF context = "CurrentYearInstant" THEN "current"
                       ELSE IF context = "Prior1YearInstant" THEN other.prior
                       ELSE IF context = "CurrentYearInstant_NonConsolidatedMember"
                       THEN other.nonconsolidated
                       ELSE other.segment
        IN  [i \in 1..n |->
                IF carried = "current"
                THEN (IF i = fault.node THEN fault.kind ELSE "value")
                ELSE IF carried = "all" \/ (carried = "first" /\ i = 1) THEN "value"
                ELSE "none"]]

BSQNames ==
    <<"jppfs_cor:Assets", "jppfs_cor:LiabilitiesAndNetAssets", "jppfs_cor:Liabilities",
      "jppfs_cor:NetAssets", "jppfs_cor:CurrentAssets", "jppfs_cor:NoncurrentAssets">>

InitBS ==
    /\ pc = "new"
    /\ IdleRest
    /\ IdleRun
    /\ IdleSummary
    /\ \E n \in 1..MaxNodes :
         \E parent \in Forests(n), first \in {"debit", "credit"},
            second \in Balances, fault \in Faults(n), other \in OtherContexts,
            amounts \in {"rising", "falling"} :
            /\ concepts =
                 [i \in 1..n |->
                    [qname |-> BSQNames[i], label |-> BSQNames[i],
                     amount |-> IF amounts = "rising" \/ i <= 2 THEN i ELSE 9 - i,
                     balance |-> IF i = 1 THEN first
                                 ELSE IF i = 2 THEN second ELSE "credit"]]
            /\ to_child = ChildrenOf(n, parent)
            /\ facts = BSFactsWith(n, fault, other)
    /\ \E consolidated \in BOOLEAN :
          resolved = [class |-> "BSConcept", consolidated |-> consolidated]
    /\ instances = None

BSConcept_init ==
    /\ pc = "new"
    /\ resolved.class = "BSConcept"
    /\ LET root_concepts == rootConcepts
           found == search_bs_root_concepts(root_concepts)
       IN  \E contexts \in list_of(contexts_used_in_all_root_concepts(
                                       root_concepts, resolved.consolidated)) :
              /\ resolved' = [class |-> "BSConcept",
                              consolidated |-> resolved.consolidated,
                              root_concepts |-> root_concepts,
                              contexts |-> contexts,
                              root_debit_concept |-> found.debit,
                              root_credit_concept |-> found.credit]
              /\ pc' = IF found.exc # None THEN "not_constructed" ELSE "constructed"
    /\ UNCHANGED <<concepts, to_child, facts, instances>>
    /\ UNCHANGED monthVars
    /\ UNCHANGED aggVars
    /\ UNCHANGED runVars
    /\ UNCHANGED summaryVars

BSConcept_extract_instances ==
    /\ pc = "constructed"
    /\ resolved.class = "BSConcept"
    /\ LET r == bs_extract_instances(resolved.contexts)
       IN  /\ instances' = r
           /\ pc' = IF r.exc # None THEN "raised" ELSE "done"
    /\ UNCHANGED <<concepts, to_child, facts, resolved>>
    /\ UNCHANGED monthVars
    /\ UNCHANGED aggVars
    /\ UNCHANGED runVars
    /\ UNCHANGED summaryVars

NextBS == BSConcept_init \/ BSConcept_extract_instances

SpecBS == InitBS /\ [][NextBS]_vars

(***************************************************************************)
(* Properties of BSConcept.                                                *)
(***************************************************************************)
ReturnedBS == pc = "done" /\ resolved.class = "BSConcept"

\* The children of a concept that report a value in the context, in
\* relationship order.
ReportedChildren(concept, context) ==
    SelectSeq(to_child[concept], LAMBDA c : facts[context][c] = "value")

ResolvedBS ==
    /\ pc \in {"constructed", "not_constructed", "done", "raised"}
    /\ resolved.class = "BSConcept"

\* The standard context ids of a consolidation scope, among the ids of the
\* model.
EligibleContextIds(consolidated) ==
    IF consolidated THEN {"CurrentYearInstant", "Prior1YearInstant"}
    ELSE {"CurrentYearInstant_NonConsolidatedMember"}

\* C12: the contexts of a resolved concept with root concepts R and scope c
\* are exactly the contexts that have a fact on every r in R, have a
\* standard identifier and have the scope c; each is listed once.  A
\* context that only some of the roots have a fact in is not among them.
C12_ContextsAreIntersection ==
    ResolvedBS =>
        /\ SeqToSet(resolved.contexts)
             = { context \in EligibleContextIds(resolved.consolidated) :
                     \A r \in SeqToSet(resolved.root_concepts) :
                         facts[context][r] # "none" }
        /\ \A i, j \in 1..Len(resolved.contexts) :
               resolved.contexts[i] = resolved.contexts[j] => i = j

\* A concept of two roots was resolved where the prior instant has a fact
\* on the first root only and the segment context or the context of the
\* other scope has facts on both: the current instant alone is used.
C12_Witness ==
    /\ ResolvedBS
    /\ Len(resolved.root_concepts) = 2
    /\ facts["Prior1YearInstant"][resolved.root_concepts[1]] = "value"
    /\ facts["Prior1YearInstant"][resolved.root_concepts[2]] = "none"
    /\ resolved.contexts = <<"CurrentYearInstant">>

\* Concepts were resolved for the consolidated scope where the context
\* marked as not consolidated and the segment context have facts on every
\* root.
C12_WitnessOtherScope ==
    /\ ResolvedBS
    /\ resolved.consolidated
    /\ \A r \in SeqToSet(resolved.root_concepts) :
          /\ facts["CurrentYearInstant_NonConsolidatedMember"][r] = "value"
          /\ facts["Prior1YearInstant"][r] = "value"
    /\ Len(resolved.contexts) = 2

\* C18: constructing a concept whose root concepts are not empty and whose
\* contexts have an empty intersection fails: no concept is constructed
\* with an empty list of contexts.
C18_EmptyIntersectionFails ==
    (ResolvedBS /\ resolved.root_concepts # <<>> /\ resolved.contexts = <<>>)
        => pc = "not_constructed"

CalledBS == pc \in {"done", "raised"} /\ resolved.class = "BSConcept"

\* Both root trees of the context can be extracted: every fact they need is
\* there and neither root fact is nil.
BothTreesExtracted(context) ==
    LET assets == extract_items(resolved.root_debit_concept[1], context)
        credit_item == extract_items(resolved.root_credit_concept[1], context)
    IN  /\ assets.exc = None /\ assets.item # <<>>
        /\ credit_item.exc = None /\ credit_item.item # <<>>

\* The extracted credit tree of the context has exactly two children.
CreditHasTwoItems(context) ==
    Len(extract_items(resolved.root_credit_concept[1], context).item[1].items) = 2

\* C19: when BSConcept.extract_instances meets a context whose extracted
\* credit tree does not have exactly two children, it skips the context:
\* the call returns, it holds no instance of that context, and it holds an
\* instance of every other context of the concept.
C19_ContextSkipped ==
    (CalledBS /\ \A context \in SeqToSet(resolved.contexts) : BothTreesExtracted(context))
        => /\ pc = "done"
           /\ \A context \in SeqToSet(resolved.contexts) :
                  (\E k \in 1..Len(instances.instances) :
                       instances.instances[k].period = context)
                      <=> CreditHasTwoItems(context)

\* The part of C19 about the other contexts alone: with two contexts, one
\* of two credit items and one not, the call still returns an instance.
C19_OtherContextsStillProduced ==
    (/\ CalledBS
     /\ Len(resolved.contexts) = 2
     /\ \A context \in SeqToSet(resolved.contexts) : BothTreesExtracted(context)
     /\ \E context \in SeqToSet(resolved.contexts) : CreditHasTwoItems(context))
        => instances.exc = None /\ instances.instances # <<>>

(***************************************************************************)
(* PLConcept.__init__ over roles of several root concepts.                 *)
(***************************************************************************)
\* The qnames a concept of a profit and loss role can have here: the two
\* of net profit or loss and three others.
PLRootQNames ==
    { "jppfs_cor:ProfitLoss", "jpigp_cor:ProfitLossIFRS",
      "jppfs_cor:ComprehensiveIncome", "jppfs_cor:OperatingRevenue1",
      "jppfs_cor:OperatingIncome" }

InitPLRoot ==
    /\ pc = "new"
    /\ IdleRest
    /\ IdleRun
    /\ IdleSummary
    /\ \E n \in 1..MaxNodes :
         \E parent \in Forests(n), qname \in [1..n -> PLRootQNames], prior \in BOOLEAN :
            /\ \A i, j \in 1..n : qname[i] = qname[j] => i = j
            /\ concepts =
                 [i \in 1..n |->
                    [qname |-> qname[i], label |-> qname[i], amount |-> i,
                     balance |-> "credit"]]
            /\ to_child = ChildrenOf(n, parent)
            /\ facts = FactsWith(n, [node |-> 0, kind |-> "value"], prior)
    /\ resolved = [class |-> "PLConcept"]
    /\ instances = None

SpecPLRoot == InitPLRoot /\ [][NextPL]_vars

ResolvedPL ==
    /\ pc \in {"constructed", "not_constructed", "done", "raised"}
    /\ resolved.class = "PLConcept"

\* The concepts of net profit or loss among the root concepts, and among
\* the children of the root concepts.
NetProfitRoots ==
    { c \in 1..Len(concepts) :
          /\ \A i \in 1..Len(concepts) : c \notin SeqToSet(to_child[i])
          /\ concepts[c].qname \in {"jppfs_cor:ProfitLoss", "jpigp_cor:ProfitLossIFRS"} }

NetProfitChildrenOfRoots ==
    { c \in 1..Len(concepts) :
          /\ \E r \in 1..Len(concepts) :
                /\ \A i \in 1..Len(concepts) : r \notin SeqToSet(to_child[i])
                /\ c \in SeqToSet(to_child[r])
          /\ concepts[c].qname \in {"jppfs_cor:ProfitLoss", "jpigp_cor:ProfitLossIFRS"} }

\* C20: PLConcept takes the one root concept of a net profit or loss qname;
\* if no root concept has one, the one child of a root concept that has;
\* construction raises if two concepts match at the level searched, and if
\* none matches at either level, whatever lies deeper.
C20_TwoStageRootSearch ==
    ResolvedPL =>
        LET chosen == IF NetProfitRoots # {} THEN NetProfitRoots
                      ELSE NetProfitChildrenOfRoots
        IN  IF Cardinality(chosen) = 1
            THEN /\ pc # "not_constructed"
                 /\ resolved.pl_root_concept = <<CHOOSE c \in chosen : TRUE>>
            ELSE pc = "not_constructed"

\* A concept was constructed whose net profit or loss is a child of a root
\* concept, next to a second root concept.
C20_Witness ==
    /\ ResolvedPL
    /\ pc = "constructed"
    /\ NetProfitRoots = {}
    /\ Len(resolved.root_concepts) = 2
    /\ resolved.pl_root_concept # <<>>

\* Construction raised although a concept two levels below a root concept
\* has a net profit or loss qname.
C20_WitnessDeeper ==
    /\ ResolvedPL
    /\ pc = "not_constructed"
    /\ NetProfitRoots = {} /\ NetProfitChildrenOfRoots = {}
    /\ \E c \in 1..Len(concepts) : concepts[c].qname = "jppfs_cor:ProfitLoss"

(***************************************************************************)
(* extract_financial_statements_from_xbrl_v2.py: the main process, its     *)
(* ProcessPoolExecutor and process_company_folder.                         *)
(*                                                                         *)
(* A company folder is the Path [parent, name].  archives gives, for every *)
(* *_xbrl.zip of a company folder in the order of the glob, what           *)
(* processing it does: "ok", "load_fails" (load_edinet_xbrl_model_from_zip *)
(* raises, before cntlr is assigned) or "extract_fails" (a later statement *)
(* of the try block raises).  A file is [kind, by, docs]: kind "absent",   *)
(* "partial" (opened for writing, not yet written and closed) or           *)
(* "complete"; by is the company folder whose task wrote it; docs are the  *)
(* numbers of the archives the written Company holds.                      *)
(***************************************************************************)
RESULT_ROOT_DIR == "json-data-v2"

\* Archives of a company folder.
MaxFilings == 2

\* Worker processes of the pool, NUM_PROCESSES in the script.
MaxWorkers == 2

notRunVars == <<pc, from_month, to_month, month_duration, pipeline,
                financial_statements_documents, buckets, aggregated,
                financial_statements_list, aggregatedV1,
                concepts, to_child, facts, resolved, instances>>

construct_result_file_path(company_folder) ==
    RESULT_ROOT_DIR \o "/" \o company_folder.name \o "/result.json"

\* Faulty variant: the directory is the same for every company.
result_file_path_of_mut(company_folder) ==
    RESULT_ROOT_DIR \o "/" \o "E00001" \o "/result.json"

\* Line 495: RESULT_ROOT_DIR / f"{company.edinetCode}" / "result.json", where
\* company.edinetCode is the edinetCode of the metadata.json of the latest
\* filing.
result_file_path_of(company_folder) ==
    RESULT_ROOT_DIR \o "/" \o metadata[company_folder.name] \o "/result.json"

absent == [kind |-> "absent", by |-> None, docs |-> <<>>]

\* One iteration of the loop of lines 380-470 on a task [state, file_num,
\* docs, cntlr]: an exception is logged and breaks the loop; the finally
\* clause then closes cntlr, which raises UnboundLocalError if no archive of
\* this call was loaded, and that leaves through the outer except clause.
process_archive(task, outcome) ==
    IF outcome = "ok"
    THEN [task EXCEPT !.docs = Append(@, task.file_num),
                      !.cntlr = TRUE,
                      !.file_num = @ + 1]
    ELSE IF outcome = "extract_fails"
    THEN [task EXCEPT !.cntlr = TRUE, !.state = "after_loop"]
    ELSE IF task.cntlr
    THEN [task EXCEPT !.state = "after_loop"]
    ELSE [task EXCEPT !.state = "returned"]

\* Faulty variant: the result is written whatever was extracted.
no_financial_statements_found_mut(company_financial_statements) == FALSE

\* Line 475: len(company_financial_statements) == 0.
no_financial_statements_found(company_financial_statements) ==
    Len(company_financial_statements) = 0

NumFutures == Len(futures)

Running == { t \in 1..NumFutures : futures[t].state \in {"loop", "after_loop", "writing"} }

\* executor.submit of the list comprehension of lines 529-538, one company
\* folder at a time.
main_submit ==
    /\ main_process.pc = "submit"
    /\ IF NumFutures < Len(XBRL_ARCHIVE_FILES)
       THEN /\ futures' = Append(futures, [state |-> "pending", file_num |-> 0,
                                           docs |-> <<>>, cntlr |-> FALSE,
                                           path |-> None])
            /\ UNCHANGED main_process
       ELSE /\ main_process' = [main_process EXCEPT !.pc = "result", !.future = 1]
            /\ UNCHANGED futures
    /\ UNCHANGED <<XBRL_ARCHIVE_FILES, archives, metadata, filesystem>>
    /\ UNCHANGED notRunVars
    /\ UNCHANGED summaryVars

\* future.result() of lines 539-540: returns once the task has ended; after
\* the last one the with block is left.
main_result ==
    /\ main_process.pc = "result"
    /\ IF main_process.future <= NumFutures
       THEN /\ futures[main_process.future].state = "returned"
            /\ main_process' = [main_process EXCEPT !.future = @ + 1]
       ELSE main_process' = [main_process EXCEPT !.pc = "exit_with"]
    /\ UNCHANGED <<XBRL_ARCHIVE_FILES, archives, metadata, filesystem, futures>>
    /\ UNCHANGED notRunVars
    /\ UNCHANGED summaryVars

\* KeyboardInterrupt is raised in the main process inside the with block.
main_KeyboardInterrupt ==
    /\ main_process.pc \in {"submit", "result"}
    /\ main_process' = [main_process EXCEPT !.pc = "exit_with", !.interrupted = TRUE]
    /\ UNCHANGED <<XBRL_ARCHIVE_FILES, archives, metadata, filesystem, futures>>
    /\ UNCHANGED notRunVars
    /\ UNCHANGED summaryVars

\* Leaving the with block, normally or by an exception, runs
\* ProcessPoolExecutor.__exit__, that is shutdown(wait=True): it returns when
\* no submitted task is pending or running.  Then the except clause of lines
\* 541-544 runs if the interrupt was raised.
main_exit_with ==
    /\ main_process.pc = "exit_with"
    /\ \A t \in 1..NumFutures : futures[t].state \in {"returned", "raised", "cancelled"}
    /\ main_process' = [main_process EXCEPT
                            !.pc = IF main_process.interrupted THEN "except" ELSE "end"]
    /\ UNCHANGED <<XBRL_ARCHIVE_FILES, archives, metadata, filesystem, futures>>
    /\ UNCHANGED notRunVars
    /\ UNCHANGED summaryVars

\* except KeyboardInterrupt: executor.shutdown(wait=True, cancel_futures=True)
\* cancels what is still pending, then sys.exit(0).
main_except_KeyboardInterrupt ==
    /\ main_process.pc = "except"
    /\ Running = {}
    /\ futures' = [t \in 1..NumFutures |->
                      IF futures[t].state = "pending"
                      THEN [futures[t] EXCEPT !.state = "cancelled"]
                      ELSE futures[t]]
    /\ main_process' = [main_process EXCEPT !.pc = "exit"]
    /\ UNCHANGED <<XBRL_ARCHIVE_FILES, archives, metadata, filesystem>>
    /\ UNCHANGED notRunVars
    /\ UNCHANGED summaryVars

\* A worker process of the pool takes a pending task and calls
\* process_company_folder: lines 355-377.
worker_start ==
  \E t \in 1..NumFutures :
    /\ futures[t].state = "pending"
    /\ Cardinality(Running) < MaxWorkers
    /\ futures' = [futures EXCEPT ![t].state = "loop", ![t].file_num = 1]
    /\ UNCHANGED <<XBRL_ARCHIVE_FILES, archives, metadata, filesystem, main_process>>
    /\ UNCHANGED notRunVars
    /\ UNCHANGED summaryVars

\* One iteration of the loop over the archives of the company folder.
worker_process_archive ==
  \E t \in 1..NumFutures :
    LET zips == archives[XBRL_ARCHIVE_FILES[t].name]
    IN  /\ futures[t].state = "loop"
        /\ futures[t].file_num <= Len(zips)
        /\ futures' = [futures EXCEPT
                           ![t] = process_archive(futures[t], zips[futures[t].file_num])]
        /\ UNCHANGED <<XBRL_ARCHIVE_FILES, archives, metadata, filesystem, main_process>>
        /\ UNCHANGED notRunVars
        /\ UNCHANGED summaryVars

\* Lines 472-498 up to the opening of the result file by write_text:
\* return if nothing was extracted, else aggregate, build the Company, make
\* the directory and open the file for writing, which creates or truncates
\* it.
worker_aggregate_and_open ==
  \E t \in 1..NumFutures :
    LET company_folder == XBRL_ARCHIVE_FILES[t]
        result_file_path == result_file_path_of(company_folder)
    IN  /\ \/ futures[t].state = "after_loop"
           \/ /\ futures[t].state = "loop"
              /\ futures[t].file_num > Len(archives[company_folder.name])
        /\ IF no_financial_statements_found(futures[t].docs)
           THEN /\ futures' = [futures EXCEPT ![t].state = "returned"]
                /\ UNCHANGED filesystem
           ELSE /\ futures' = [futures EXCEPT ![t].state = "writing",
                                              ![t].path = result_file_path]
                /\ filesystem' = [filesystem EXCEPT
                                      ![result_file_path] =
                                          [kind |-> "partial", by |-> company_folder.name,
                                           docs |-> <<>>]]
        /\ UNCHANGED <<XBRL_ARCHIVE_FILES, archives, metadata, main_process>>
        /\ UNCHANGED notRunVars
        /\ UNCHANGED summaryVars

\* write_text writes the text and closes the file.
worker_write ==
  \E t \in 1..NumFutures :
    /\ futures[t].state = "writing"
    /\ filesystem' = [filesystem EXCEPT
                          ![futures[t].path] =
                              [kind |-> "complete", by |-> XBRL_ARCHIVE_FILES[t].name,
                               docs |-> futures[t].docs]]
    /\ futures' = [futures EXCEPT ![t].state = "returned"]
    /\ UNCHANGED <<XBRL_ARCHIVE_FILES, archives, metadata, main_process>>
    /\ UNCHANGED notRunVars
    /\ UNCHANGED summaryVars

\* The write raises OSError (the disk is full): the except clause of line
\* 502 logs it and the call returns.
worker_write_fails ==
  \E t \in 1..NumFutures :
    /\ futures[t].state = "writing"
    /\ futures' = [futures EXCEPT ![t].state = "returned"]
    /\ UNCHANGED <<XBRL_ARCHIVE_FILES, archives, metadata, filesystem, main_process>>
    /\ UNCHANGED notRunVars
    /\ UNCHANGED summaryVars

\* The interrupt of the terminal reaches the worker process too:
\* KeyboardInterrupt is no Exception, so it leaves process_company_folder and
\* becomes the exception of the future.
worker_KeyboardInterrupt ==
  \E t \in 1..NumFutures :
    /\ main_process.interrupted
    /\ futures[t].state \in {"loop", "after_loop", "writing"}
    /\ futures' = [futures EXCEPT ![t].state = "raised"]
    /\ UNCHANGED <<XBRL_ARCHIVE_FILES, archives, metadata, filesystem, main_process>>
    /\ UNCHANGED notRunVars
    /\ UNCHANGED summaryVars

\* Path("xbrl-files").glob("*"), the directories among it.
CompanyFolders ==
    << [parent |-> "xbrl-files", name |-> "E00001"],
       [parent |-> "xbrl-files", name |-> "E00002"] >>

CompanyNames == { CompanyFolders[k].name : k \in 1..Len(CompanyFolders) }

ResultPaths == { construct_result_file_path(CompanyFolders[k]) : k \in 1..Len(CompanyFolders) }

ArchivesUpTo(n) ==
    UNION { [1..k -> {"ok", "load_fails", "extract_fails"}] : k \in 0..n }

\* Lines 43 and 83-85: the company folders whose result file does
\* not exist.
not_yet_processed(files) ==
    SelectSeq(CompanyFolders,
              LAMBDA company_folder :
                  files[construct_result_file_path(company_folder)].kind = "absent")

\* The first company has any archives up to the bound, the second one at
\* most one, which is in order.  The name of a company folder is the EDINET
\* code of the filings in it (line 38), which is also what their
\* metadata.json gives.  A result file that exists was written by an earlier
\* run.
InitRun ==
    /\ pc = "run"
    /\ IdleRest
    /\ IdleExtract
    /\ IdleSummary
    /\ archives \in { a \in [CompanyNames -> ArchivesUpTo(MaxFilings)] :
                          a["E00002"] \in {<<>>, <<"ok">>} }
    /\ metadata = [name \in CompanyNames |-> name]
    /\ filesystem \in [ResultPaths ->
                          {absent, [kind |-> "complete", by |-> "earlier run",
                                    docs |-> <<>>]}]
    /\ XBRL_ARCHIVE_FILES = not_yet_processed(filesystem)
    /\ main_process = [pc |-> "submit", future |-> 0, interrupted |-> FALSE]
    /\ futures = <<>>

NextRun ==
    \/ main_submit
    \/ main_result
    \/ main_KeyboardInterrupt
    \/ main_exit_with
    \/ main_except_KeyboardInterrupt
    \/ worker_start
    \/ worker_process_archive
    \/ worker_aggregate_and_open
    \/ worker_write
    \/ worker_write_fails
    \/ worker_KeyboardInterrupt

SpecRun == InitRun /\ [][NextRun]_vars

(***************************************************************************)
(* Properties of a run of extract_financial_statements_from_xbrl_v2.py.    *)
(***************************************************************************)
\* The task of future t has ended, by returning or by an exception.
Ended(t) == futures[t].state \in {"returned", "raised"}

\* The numbers of the archives of a company folder that can be processed
\* without an exception.
ArchivesInOrder(name) ==
    SelectSeq([k \in 1..Len(archives[name]) |-> k],
              LAMBDA k : archives[name][k] = "ok")

\* C13: when process_company_folder has returned, every archive of the
\* company whose processing raises nothing was processed and is in the
\* company's list of documents, also the archives that come after one whose
\* processing raised.
C13_OtherFilingsStillProcessed ==
    \A t \in 1..NumFutures :
        futures[t].state = "returned"
            => futures[t].docs = ArchivesInOrder(XBRL_ARCHIVE_FILES[t].name)

\* C14: a call of process_company_folder that extracted no filing writes no
\* file: it computed no result path, no file is written by it, and the
\* result path of its company folder is still absent.
C14_NothingExtractedNothingWritten ==
    \A t \in 1..NumFutures :
        (Ended(t) /\ futures[t].docs = <<>>)
            => LET company_folder == XBRL_ARCHIVE_FILES[t]
                   own == filesystem[construct_result_file_path(company_folder)]
               IN  /\ futures[t].path = None
                   /\ \A path \in DOMAIN filesystem :
                          filesystem[path].by # company_folder.name
                   /\ own = absent

\* A call returned without a document although its company folder has an
\* archive in order after the one that failed.
C14_Witness ==
    \E t \in 1..NumFutures :
        /\ futures[t].state = "returned"
        /\ futures[t].docs = <<>>
        /\ ArchivesInOrder(XBRL_ARCHIVE_FILES[t].name) # <<>>
        /\ filesystem[construct_result_file_path(XBRL_ARCHIVE_FILES[t])].kind = "absent"

\* C15: in every state a result file is absent or complete.
C15_AtomicPublish ==
    \A path \in DOMAIN filesystem : filesystem[path].kind \in {"absent", "complete"}

\* The same once the program has ended: no partial file is left behind.
C15_NoPartialFileLeft ==
    main_process.pc \in {"end", "exit"}
        => \A path \in DOMAIN filesystem : filesystem[path].kind \in {"absent", "complete"}

\* C16: once KeyboardInterrupt was raised in the main process, no pending
\* task starts: it stays pending or is cancelled.
C16_NoStartAfterInterrupt ==
    [][main_process.interrupted
         => \A t \in 1..NumFutures :
                futures[t].state = "pending"
                    => futures'[t].state \in {"pending", "cancelled"}]_vars

OperatingIncomeQNames ==
    { "jppfs_cor:OperatingIncome", "jpigp_cor:OperatingProfitLossIFRS" }

BankQNames == { "jppfs_cor:OrdinaryIncomeBNK", "jppfs_cor:OrdinaryExpensesBNK" }

\* What the concepts below the net profit or loss can be.
QNamesBelowProfitLoss ==
    OperatingIncomeQNames \cup BankQNames
        \cup { "jppfs_cor:OrdinaryIncome", "jppfs_cor:NetSales" }

\* One role whose root is the net profit or loss; every concept has a value
\* in the current year and no fact in the prior year.
InitOperatingIncome ==
    /\ pc = "new"
    /\ IdleRest
    /\ IdleRun
    /\ IdleSummary
    /\ \E n \in 1..MaxNodes :
         \E parent \in Parents(n), qname \in [2..n -> QNamesBelowProfitLoss] :
            /\ concepts =
                 [i \in 1..n |->
                    LET q == IF i = 1 THEN "jppfs_cor:ProfitLoss" ELSE qname[i]
                    IN  [qname |-> q, label |-> q, amount |-> i, balance |-> "credit"]]
            /\ to_child = ChildrenOf(n, parent)
            /\ facts = FactsWith(n, [node |-> 0, kind |-> "value"], FALSE)
    /\ resolved = [class |-> "PLConcept"]
    /\ instances = None

SpecOperatingIncome == InitOperatingIncome /\ [][NextPL]_vars

RECURSIVE PreOrder(_)
\* The items of a tree in depth-first pre-order.
PreOrder(item) ==
    <<item>> \o Concat([k \in 1..Len(item.items) |-> PreOrder(item.items[k])])

\* The first item of a sequence whose qname is one of qname, <<>> if none.
FirstWithQName(items, qname) ==
    LET found == { k \in 1..Len(items) : items[k].qname \in qname }
    IN  IF found = {} THEN <<>>
        ELSE <<items[CHOOSE k \in found : \A j \in found : k <= j]>>

\* The items below an item.
ProperDescendants(item) == ItemAndDescendants(item) \ {item}

\* What the claim expects for a net profit or loss tree.
ExpectedOperatingIncome(tree) ==
    LET operating == FirstWithQName(PreOrder(tree), OperatingIncomeQNames)
        ordinary == FirstWithQName(PreOrder(tree), {"jppfs_cor:OrdinaryIncome"})
    IN  IF operating # <<>> THEN operating
        ELSE IF ordinary = <<>> THEN <<>>
        ELSE IF \E x \in ProperDescendants(ordinary[1]) : x.qname \in BankQNames
        THEN ordinary
        ELSE <<>>

CalledPL == pc \in {"done", "raised"} /\ resolved.class = "PLConcept"

\* The tree _extract_items gives under the net profit or loss concept.
ProfitAndLossTree(context) ==
    extract_items(resolved.pl_root_concept[1], context).item[1]

\* C21: for every context, the operating income of the instance is the
\* first item in pre-order with an operating income qname; without one, the
\* first item with the ordinary income qname provided a bank item lies below
\* it; and when the claim expects nothing the call raises.  An ordinary
\* income without a bank item below it is never the operating income.
C21_OperatingIncomeSearch ==
    CalledPL =>
        /\ pc = "done" =>
             \A k \in 1..Len(instances.instances) :
                LET instance == instances.instances[k]
                IN  /\ <<instance.operatingIncome>>
                          = ExpectedOperatingIncome(instance.profitAndLoss)
                    /\ instance.operatingIncome.qname = "jppfs_cor:OrdinaryIncome"
                          => \E x \in ProperDescendants(instance.operatingIncome) :
                                 x.qname \in BankQNames
        /\ pc = "raised" =>
             \E k \in 1..Len(resolved.contexts) :
                ExpectedOperatingIncome(ProfitAndLossTree(resolved.contexts[k])) = <<>>
        /\ pc = "done" => Len(instances.instances) = Len(resolved.contexts)

\* The ordinary income of a bank was returned although an ordinary income
\* without a bank item below it is in the tree too.
C21_Witness ==
    /\ ReturnedPL
    /\ \E k \in 1..Len(instances.instances) :
          LET instance == instances.instances[k]
          IN  /\ instance.operatingIncome.qname = "jppfs_cor:OrdinaryIncome"
              /\ \E x \in ItemAndDescendants(instance.profitAndLoss) :
                    /\ x.qname = "jppfs_cor:OrdinaryIncome"
                    /\ x # instance.operatingIncome

\* A tree with an ordinary income that is not a bank's, and no operating
\* income: the call raised.
C21_WitnessNonBank ==
    /\ pc = "raised"
    /\ resolved.class = "PLConcept"
    /\ \E i \in 1..Len(concepts) : concepts[i].qname = "jppfs_cor:OrdinaryIncome"
    /\ \A i \in 1..Len(concepts) : concepts[i].qname \notin OperatingIncomeQNames

(***************************************************************************)
(* A context without operating income, PLConcept.extract_instances and     *)
(* the filing.                                                             *)
(***************************************************************************)
\* Every concept has a fact in every context of the resolved concept, and
\* the fact of the net profit or loss is not nil: all that can fail is the
\* search for the operating income.
OnlyOperatingIncomeCanFail ==
    \A k \in 1..Len(resolved.contexts) :
        LET context == resolved.contexts[k]
        IN  /\ \A i \in 1..Len(concepts) : facts[context][i] # "none"
            /\ facts[context][resolved.pl_root_concept[1]] # "nil"

\* C22: the contexts in which an operating income (or a bank's ordinary
\* income) is found get their PL instance, whether or not the search fails
\* in another context of the same resolved concept.
C22_FailureConfinedToContext ==
    (CalledPL /\ OnlyOperatingIncomeCanFail) =>
        \A k \in 1..Len(resolved.contexts) :
            LET context == resolved.contexts[k]
            IN  ExpectedOperatingIncome(ProfitAndLossTree(context)) # <<>>
                    => \E j \in 1..Len(instances.instances) :
                           instances.instances[j].context = context

\* The same for the filing: an archive one of whose statements raised
\* while it was extracted is still among the documents of the company.
C22_FilingStillIncluded ==
    \A t \in 1..NumFutures :
        futures[t].state = "returned"
            => \A k \in 1..Len(archives[XBRL_ARCHIVE_FILES[t].name]) :
                   archives[XBRL_ARCHIVE_FILES[t].name][k] = "extract_fails"
                       => k \in SeqToSet(futures[t].docs)

(***************************************************************************)
(* A cash flow statement without operating activities.                     *)
(***************************************************************************)
\* Every concept of the role has a fact, a value or nil, in every context
\* of the resolved concept.
AllFactsPresent ==
    \A k \in 1..Len(resolved.contexts), i \in 1..Len(concepts) :
        facts[resolved.contexts[k]][i] # "none"

\* C23: when the CF root has no operating child (and no fact of the role is
\* missing), CFConcept.extract_instances does not raise and produces one
\* instance per context, whose operating item is the placeholder.
C23_MissingOperatingGivesPlaceholder ==
    (CalledCF /\ MainConceptsWith("operating") = {} /\ AllFactsPresent)
        => /\ pc = "done"
           /\ Len(instances.instances) = Len(resolved.contexts)
           /\ \A k \in 1..Len(instances.instances) :
                 /\ instances.instances[k].context = resolved.contexts[k]
                 /\ instances.instances[k].operating = placeholder_accounting_item

\* The exception is the attribute access on None of line 353.
C23_RaisesAttributeError ==
    (CalledCF /\ MainConceptsWith("operating") = {} /\ AllFactsPresent
        /\ resolved.contexts # <<>>)
        => pc = "raised" /\ instances.exc = "AttributeError"

(***************************************************************************)
(* _extract_items on relationships that are not a tree: a second parent or *)
(* a cycle among the concepts below the root.                              *)
(***************************************************************************)
\* The relationships of a tree and one more, from any concept to any concept
\* but the root.
WithRelationship(children, from, to) ==
    [i \in DOMAIN children |->
        IF i = from THEN Append(children[i], to) ELSE children[i]]

\* The concepts a concept leads to by one relationship or more.
RECURSIVE ReachableIn(_, _)
ReachableIn(froms, steps) ==
    IF steps = 0 THEN {}
    ELSE LET next == UNION { SeqToSet(to_child[c]) : c \in froms }
         IN  next \cup ReachableIn(next, steps - 1)

\* A concept below the root is on a cycle.
HasCycle ==
    \E c \in 1..Len(concepts) : c \in ReachableIn({c}, Len(concepts))

\* One role of a profit and loss statement: net profit or loss, the
\* operating income below it, further concepts; every fact a value but at
\* most one, which is nil.
InitGraph ==
    /\ pc = "new"
    /\ IdleRest
    /\ IdleRun
    /\ IdleSummary
    /\ \E n \in 2..MaxNodes :
         \E parent \in Parents(n), from \in 0..n, to \in 2..n,
            fault \in { f \in Faults(n) : f.kind # "none" } :
            /\ from # to
            /\ concepts =
                 [i \in 1..n |->
                    LET qname == IF i = 2 THEN "jppfs_cor:OperatingIncome"
                                 ELSE PLQNames[i]
                    IN  [qname |-> qname, label |-> qname, amount |-> i,
                         balance |-> "credit"]]
            /\ to_child = IF from = 0 THEN ChildrenOf(n, parent)
                          ELSE WithRelationship(ChildrenOf(n, parent), from, to)
            /\ facts = FactsWith(n, fault, FALSE)
    /\ resolved = [class |-> "PLConcept"]
    /\ instances = None

SpecGraph == InitGraph /\ [][NextPL]_vars

RECURSIVE NoConceptTwiceOnPath(_, _)
\* No qname of seen, and no qname twice, on a path from the item downwards.
NoConceptTwiceOnPath(item, seen) ==
    /\ item.qname \notin seen
    /\ \A k \in 1..Len(item.items) :
           NoConceptTwiceOnPath(item.items[k], seen \cup {item.qname})

\* Neither the net profit or loss nor the operating income is nil.
RootAndOperatingIncomeReported ==
    \A k \in 1..Len(resolved.contexts) :
        /\ facts[resolved.contexts[k]][1] = "value"
        /\ facts[resolved.contexts[k]][2] = "value"

\* C24: on every relationship graph, a cycle below the root included, the
\* extraction ends by returning the trees (the guard cuts the cycle), and no
\* concept occurs twice on a path of a tree.
C24_TerminatesOnCycles ==
    (CalledPL /\ RootAndOperatingIncomeReported)
        => /\ pc = "done"
           /\ \A k \in 1..Len(instances.instances) :
                 NoConceptTwiceOnPath(instances.instances[k].profitAndLoss, {})

\* What the code does on a cycle of concepts that all have values: the
\* recursion ends in RecursionError.
C24_CycleOfValuesRaises ==
    (CalledPL /\ HasCycle
        /\ \A k \in 1..Len(resolved.contexts), i \in 1..Len(concepts) :
               facts[resolved.contexts[k]][i] = "value")
        => pc = "raised" /\ instances.exc = "RecursionError"

\* The trees that are returned have no concept twice on a path: a cycle
\* is only left through a nil fact.
C24_ReturnedTreesHaveNoRepeat ==
    ReturnedPL =>
        \A k \in 1..Len(instances.instances) :
            NoConceptTwiceOnPath(instances.instances[k].profitAndLoss, {})

(***************************************************************************)
(* Nil facts.                                                              *)
(***************************************************************************)
RECURSIVE ReportedBelow(_, _)
\* The concepts at or below a concept that are reached from it through
\* concepts whose fact in the context is not nil.
ReportedBelow(c, context) ==
    IF facts[context][c] # "value" THEN {}
    ELSE {c} \cup UNION { ReportedBelow(to_child[c][k], context) :
                              k \in 1..Len(to_child[c]) }

\* The qnames of the items of a tree.
QNamesOf(item) == { x.qname : x \in ItemAndDescendants(item) }

\* The tree holds an item for exactly the concepts reported below the root
\* concept: none for a nil concept or below it, one for its parent and for
\* the other children of the parent.
HoldsReported(item, root_concept, context) ==
    QNamesOf(item) = { concepts[c].qname : c \in ReportedBelow(root_concept, context) }

\* The fact of the net profit or loss is nil in the context.
NilRootPL(context) == facts[context][resolved.pl_root_concept[1]] = "nil"

\* The net profit or loss is reported and an operating income is found.
GoodPL(context) ==
    /\ ~NilRootPL(context)
    /\ ExpectedOperatingIncome(ProfitAndLossTree(context)) # <<>>

\* C25: a nil concept and what is below it are left out of the tree while
\* the rest of the tree is kept, and when the fact of the net profit or loss
\* is nil in a context there is no instance of that context while the other
\* contexts get theirs.
C25_NilFactOmitsSubtree ==
    (/\ CalledPL
     /\ AllFactsPresent
     /\ \A context \in SeqToSet(resolved.contexts) : NilRootPL(context) \/ GoodPL(context))
        => \A context \in SeqToSet(resolved.contexts) :
               LET of_context == { k \in 1..Len(instances.instances) :
                                       instances.instances[k].context = context }
               IN  IF NilRootPL(context) THEN of_context = {}
                   ELSE /\ of_context # {}
                        /\ \A k \in of_context :
                               HoldsReported(instances.instances[k].profitAndLoss,
                                             resolved.pl_root_concept[1], context)

\* The first half of C25 alone, on the instances that are returned.
C25_NilSubtreeOmitted ==
    ReturnedPL =>
        \A k \in 1..Len(instances.instances) :
            HoldsReported(instances.instances[k].profitAndLoss,
                          resolved.pl_root_concept[1], instances.instances[k].context)

\* An instance was returned whose tree lacks a nil concept that has
\* children, and keeps another child of its parent.
C25_WitnessNilSubtree ==
    /\ ReturnedPL
    /\ \E k \in 1..Len(instances.instances), c \in 1..Len(concepts) :
          LET instance == instances.instances[k]
          IN  /\ facts[instance.context][c] = "nil"
              /\ to_child[c] # <<>>
              /\ Len(instance.profitAndLoss.items) >= 1
              /\ concepts[c].qname \notin QNamesOf(instance.profitAndLoss)

\* The fact of a root of the balance sheet is nil in the context.
NilRootBS(context) ==
    \/ facts[context][resolved.root_debit_concept[1]] = "nil"
    \/ facts[context][resolved.root_credit_concept[1]] = "nil"

\* The second half of C25 for the balance sheet: a context in which the
\* fact of the debit or the credit root is nil gives no instance, the other
\* contexts give theirs.
C25_NilRootBS ==
    (/\ CalledBS
     /\ AllFactsPresent
     /\ \A context \in SeqToSet(resolved.contexts) :
            NilRootBS(context) \/ CreditHasTwoItems(context))
        => /\ pc = "done"
           /\ \A context \in SeqToSet(resolved.contexts) :
                  (\E k \in 1..Len(instances.instances) :
                       instances.instances[k].period = context)
                      <=> ~NilRootBS(context)

(***************************************************************************)
(* aggregate_company_metadata.py: the summary builder, one company.        *)
(*                                                                         *)
(* SimpleCompany.model_validate_json builds one object for every JSON      *)
(* object of result.json.  An AccountingItem object lives in heap at an    *)
(* address; its address is the path of its JSON object: 1 for              *)
(* financialStatementDocuments or 2 for aggregatedFinancialStatements, the *)
(* document, the kind (1 pl, 2 bs, 3 cf), the instance, the field, then    *)
(* the positions in the items lists.  An instance holds the addresses of   *)
(* its items.  The series of aggregatedFinancialStatements of one kind are *)
(* kept in one list: the script reads their lengths only.                  *)
(***************************************************************************)
\* Documents of the company.
MaxSummaryDocs == 2

\* The AccountingItem trees of result.json: an item with one item below it
\* that has one item below it.
ItemJson == << << <<>> >> >>

RECURSIVE ItemObjects(_, _), ItemsObjects(_, _, _)
\* The objects model_validate_json builds for the JSON of an item, as a
\* function of their addresses.
ItemObjects(address, json) ==
    (address :> [items |-> [k \in 1..Len(json) |-> Append(address, k)]])
        @@ ItemsObjects(address, json, Len(json))

\* The objects of the first n items of the items list of an item.
ItemsObjects(address, json, n) ==
    IF n = 0 THEN <<>>
    ELSE ItemsObjects(address, json, n - 1) @@ ItemObjects(Append(address, n), json[n])

\* The addresses of the items of an instance at a path.
InstanceObject(path, kind, json) ==
    IF kind = 1
    THEN [durationFrom |-> json.durationFrom, durationTo |-> json.durationTo,
          consolidated |-> json.consolidated,
          expenses |-> <<path \o <<1, 1>>>>, netSales |-> <<path \o <<2, 1>>>>]
    ELSE IF kind = 2
    THEN [period |-> json.period, consolidated |-> json.consolidated,
          assets |-> Append(path, 1), liabilities |-> Append(path, 2),
          net_assets |-> Append(path, 3)]
    ELSE [durationFrom |-> json.durationFrom, durationTo |-> json.durationTo,
          consolidated |-> json.consolidated,
          operating |-> Append(path, 1), investing |-> Append(path, 2),
          financing |-> Append(path, 3)]

\* The addresses of the top items of an instance.
TopItems(kind, instance) ==
    IF kind = 1 THEN SeqToSet(instance.expenses) \cup SeqToSet(instance.netSales)
    ELSE IF kind = 2 THEN {instance.assets, instance.liabilities, instance.net_assets}
    ELSE {instance.operating, instance.investing, instance.financing}

KindField(kind) == IF kind = 1 THEN "pl" ELSE IF kind = 2 THEN "bs" ELSE "cf"

\* SimpleCompany.model_validate_json(json_string): the company.
load_financial_statements_from_json(docs) ==
    [financialStatementDocuments |->
        [d \in 1..Len(docs) |->
            [docType |-> docs[d].docType,
             submittionDate |-> docs[d].submittionDate,
             pl |-> [k \in 1..Len(docs[d].pl) |->
                        InstanceObject(<<1, d, 1, k>>, 1, docs[d].pl[k])],
             bs |-> [k \in 1..Len(docs[d].bs) |->
                        InstanceObject(<<1, d, 2, k>>, 2, docs[d].bs[k])],
             cf |-> [k \in 1..Len(docs[d].cf) |->
                        InstanceObject(<<1, d, 3, k>>, 3, docs[d].cf[k])]]],
     aggregatedFinancialStatements |->
        [pl |-> Concat([d \in 1..Len(docs) |->
                    [k \in 1..Len(docs[d].pl) |->
                        InstanceObject(<<2, d, 1, k>>, 1, docs[d].pl[k])]]),
         bs |-> Concat([d \in 1..Len(docs) |->
                    [k \in 1..Len(docs[d].bs) |->
                        InstanceObject(<<2, d, 2, k>>, 2, docs[d].bs[k])]]),
         cf |-> Concat([d \in 1..Len(docs) |->
                    [k \in 1..Len(docs[d].cf) |->
                        InstanceObject(<<2, d, 3, k>>, 3, docs[d].cf[k])]])]]

\* Every instance the company holds, with its kind.
InstancesOfDocuments(c) ==
    UNION { { [kind |-> kind, instance |-> c.financialStatementDocuments[d][KindField(kind)][k]] :
                  k \in 1..Len(c.financialStatementDocuments[d][KindField(kind)]) } :
            d \in 1..Len(c.financialStatementDocuments), kind \in 1..3 }

InstancesOfSeries(c) ==
    UNION { { [kind |-> kind, instance |-> c.aggregatedFinancialStatements[KindField(kind)][k]] :
                  k \in 1..Len(c.aggregatedFinancialStatements[KindField(kind)]) } :
            kind \in 1..3 }

RECURSIVE ObjectsOf(_)
\* The objects of the trees of a set of top items.
ObjectsOf(top_items) ==
    IF top_items = {} THEN <<>>
    ELSE LET top == CHOOSE t \in top_items : TRUE
         IN  ItemObjects(top, ItemJson) @@ ObjectsOf(top_items \ {top})

\* The objects of the items of the loaded company.
loaded_heap(c) ==
    ObjectsOf(UNION { TopItems(x.kind, x.instance) :
                          x \in InstancesOfDocuments(c) \cup InstancesOfSeries(c) })

\* Lines 160-167: the position of the Annual document of the latest
\* submittionDate, the first of them; 0 for None.
RECURSIVE latest_annual_statements_of(_)
latest_annual_statements_of(documents) ==
    IF documents = <<>> THEN 0
    ELSE LET before == latest_annual_statements_of(
                           SubSeq(documents, 1, Len(documents) - 1))
             fs == documents[Len(documents)]
         IN  IF fs.docType = "Annual"
                /\ (before = 0 \/ documents[before].submittionDate < fs.submittionDate)
             THEN Len(documents)
             ELSE before

\* The candidate replaces the latest PL or CF: lines 192-202, 226-236.
later_duration(candidate, current) ==
    \/ candidate.durationFrom > current.durationFrom
    \/ /\ candidate.durationFrom = current.durationFrom
       /\ \/ candidate.durationTo > current.durationTo
          \/ /\ candidate.durationTo = current.durationTo
             /\ ~current.consolidated /\ candidate.consolidated

\* The candidate replaces the latest BS: lines 212-216.
later_period(candidate, current) ==
    \/ candidate.period > current.period
    \/ /\ candidate.period = current.period
       /\ ~current.consolidated /\ candidate.consolidated

RECURSIVE latest_of(_, _, _)
\* The loop over the candidates, started with the first instance: the
\* position of the latest one among the first n.
latest_of(candidates, n, kind) ==
    IF n = 0 THEN 1
    ELSE LET current == latest_of(candidates, n - 1, kind)
             replaces == IF kind = 2
                         THEN later_period(candidates[n], candidates[current])
                         ELSE later_duration(candidates[n], candidates[current])
         IN  IF replaces THEN n ELSE current

\* x.items = [] for every item x of the items lists of the top items: the
\* objects themselves are assigned to.
pruned(h, top_items) ==
    [address \in DOMAIN h |->
        IF \E top \in top_items : address \in SeqToSet(h[top].items)
        THEN [h[address] EXCEPT !.items = <<>>]
        ELSE h[address]]

(***************************************************************************)
(* The documents of result.json and the steps of the loop body of lines    *)
(* 159-291.                                                                *)
(***************************************************************************)
DocHeaders ==
    { [docType |-> "Annual", submittionDate |-> 20230601],
      [docType |-> "Annual", submittionDate |-> 20220601],
      [docType |-> "Quarterly", submittionDate |-> 20230801] }

DurationJson(period, consolidated) ==
    [durationFrom |-> period[1], durationTo |-> period[2], consolidated |-> consolidated]

PLJsonLists ==
    { <<>>,
      <<DurationJson(Year2021, TRUE), DurationJson(Year2022, TRUE)>>,
      <<DurationJson(Year2022, FALSE), DurationJson(Year2022, TRUE)>> }

\* The balance sheets and the cash flow statements of a document: none, or
\* two balance sheets of one day and one cash flow statement.
BSCFJsonLists ==
    { [bs |-> <<>>, cf |-> <<>>],
      [bs |-> <<[period |-> 20230101, consolidated |-> FALSE],
                [period |-> 20230101, consolidated |-> TRUE]>>,
       cf |-> <<DurationJson(Year2022, TRUE)>>] }

DocJsons ==
    { [docType |-> h.docType, submittionDate |-> h.submittionDate,
       pl |-> pl, bs |-> bscf.bs, cf |-> bscf.cf] :
          h \in DocHeaders, pl \in PLJsonLists, bscf \in BSCFJsonLists }

InitSummary ==
    /\ pc = "loaded"
    /\ IdleRest
    /\ IdleExtract
    /\ IdleRun
    /\ \E n \in 1..MaxSummaryDocs :
         \E docs \in [1..n -> DocJsons] :
            /\ company = load_financial_statements_from_json(docs)
            /\ heap = loaded_heap(load_financial_statements_from_json(docs))
    /\ latest = [annual |-> 0, pl |-> 0, bs |-> 0, cf |-> 0]
    /\ summarized_companies = <<>>

UnchangedButSummary ==
    /\ UNCHANGED monthVars
    /\ UNCHANGED aggVars
    /\ UNCHANGED extractVars
    /\ UNCHANGED runVars

\* Lines 160-171.
select_latest_annual_statements ==
    /\ pc = "loaded"
    /\ latest' = [latest EXCEPT
                     !.annual = latest_annual_statements_of(company.financialStatementDocuments)]
    /\ pc' = "pl"
    /\ UNCHANGED <<company, heap, summarized_companies>>
    /\ UnchangedButSummary

\* The latest instance of one kind of the latest annual document and the
\* pruning of its items; nothing if there is no such document or it has no
\* instance of the kind.
select_and_prune(kind, next_pc) ==
    LET candidates ==
            IF latest.annual = 0 THEN <<>>
            ELSE company.financialStatementDocuments[latest.annual][KindField(kind)]
        chosen == latest_of(candidates, Len(candidates), kind)
    IN  /\ IF Len(candidates) > 0
           THEN /\ latest' = [latest EXCEPT ![KindField(kind)] = chosen]
                /\ heap' = pruned(heap, TopItems(kind, candidates[chosen]))
           ELSE UNCHANGED <<latest, heap>>
        /\ pc' = next_pc
        /\ UNCHANGED <<company, summarized_companies>>
        /\ UnchangedButSummary

\* Lines 189-208.
select_and_prune_latest_pl == pc = "pl" /\ select_and_prune(1, "bs")

\* Lines 209-222.
select_and_prune_latest_bs == pc = "bs" /\ select_and_prune(2, "cf")

\* Lines 223-242.
select_and_prune_latest_cf == pc = "cf" /\ select_and_prune(3, "append")

\* Lines 244-291: the SummarizedCompany holds the three latest instances
\* themselves.
append_summarized_company ==
    /\ pc = "append"
    /\ summarized_companies' =
          Append(summarized_companies,
                 [plNum |-> Len(company.aggregatedFinancialStatements.pl),
                  bsNum |-> Len(company.aggregatedFinancialStatements.bs),
                  cfNum |-> Len(company.aggregatedFinancialStatements.cf),
                  latestPL |-> <<latest.annual, latest.pl>>,
                  latestBS |-> <<latest.annual, latest.bs>>,
                  latestCF |-> <<latest.annual, latest.cf>>])
    /\ pc' = "summarized"
    /\ UNCHANGED <<company, heap, latest>>
    /\ UnchangedButSummary

NextSummary ==
    \/ select_latest_annual_statements
    \/ select_and_prune_latest_pl
    \/ select_and_prune_latest_bs
    \/ select_and_prune_latest_cf
    \/ append_summarized_company

SpecSummary == InitSummary /\ [][NextSummary]_vars

\* C26: the pruning works on copies: no step of the summary builder
\* changes an item of an instance of financialStatementDocuments or of the
\* aggregated series, so each of them keeps the items it was loaded with.
C26_PruningOnCopies ==
    [][\A address \in DOMAIN heap : heap'[address] = heap[address]]_vars

\* The part of C26 about the aggregated series alone: their items have the
\* address prefix 2.
C26_SeriesKeepFullTrees ==
    [][\A address \in DOMAIN heap :
           address[1] = 2 => heap'[address] = heap[address]]_vars

\* What is lost: once the company is summarized, an item below a top item
\* of the latest PL, BS or CF of the per-filing documents has no items left.
C26_LatestOfDocumentsPruned ==
    (pc = "summarized" /\ latest.pl # 0)
        => LET instance == company.financialStatementDocuments[latest.annual].pl[latest.pl]
           IN  \A top \in TopItems(1, instance) :
                   \A k \in 1..Len(heap[top].items) : heap[heap[top].items[k]].items = <<>>

(***************************************************************************)
(* The AccountingItem objects of the instances of one extract_instances    *)
(* call.                                                                   *)
(***************************************************************************)
\* The objects reachable from an item.
NodeObjects(item) == { x.obj : x \in ItemAndDescendants(item) }

ObjectsOfCF(instance) ==
    NodeObjects(instance.operating) \cup NodeObjects(instance.investing)
        \cup NodeObjects(instance.financing)

ObjectsOfPL(instance) ==
    NodeObjects(instance.profitAndLoss) \cup NodeObjects(instance.operatingIncome)
        \cup UNION { NodeObjects(instance.expenses[k]) : k \in 1..Len(instance.expenses) }
        \cup UNION { NodeObjects(instance.netSales[k]) : k \in 1..Len(instance.netSales) }

ObjectsOfBS(instance) ==
    NodeObjects(instance.assets) \cup NodeObjects(instance.liabilities)
        \cup NodeObjects(instance.net_assets)

\* C27: no AccountingItem object is reachable from two instances that one
\* call of CFConcept.extract_instances returned, the placeholder items
\* included.
C27_InstancesOwnTheirItems ==
    (pc = "done" /\ resolved.class = "CFConcept") =>
        \A j, k \in 1..Len(instances.instances) :
            j # k => ObjectsOfCF(instances.instances[j])
                         \cap ObjectsOfCF(instances.instances[k]) = {}

\* The same with the placeholder left aside: the items _extract_items built
\* are of one instance each.
C27_ExtractedItemsOwnedCF ==
    (pc = "done" /\ resolved.class = "CFConcept") =>
        \A j, k \in 1..Len(instances.instances) :
            j # k => ObjectsOfCF(instances.instances[j])
                         \cap ObjectsOfCF(instances.instances[k])
                             \subseteq {placeholder_accounting_item.obj}

\* The same for the instances of PLConcept.extract_instances.
C27_InstancesOwnTheirItemsPL ==
    ReturnedPL =>
        \A j, k \in 1..Len(instances.instances) :
            j # k => ObjectsOfPL(instances.instances[j])
                         \cap ObjectsOfPL(instances.instances[k]) = {}

\* The same for the instances of BSConcept.extract_instances.
C27_InstancesOwnTheirItemsBS ==
    ReturnedBS =>
        \A j, k \in 1..Len(instances.instances) :
            j # k => ObjectsOfBS(instances.instances[j])
                         \cap ObjectsOfBS(instances.instances[k]) = {}

(***************************************************************************)
(* The expenses and net sales as maximal subtrees of one balance.          *)
(***************************************************************************)
\* The item and everything below it have the balance.
Uniform(balance, item) ==
    \A x \in ItemAndDescendants(item) : x.balance = balance

\* The items of the subtree of top that have the item properly below them.
ProperAncestorsIn(top, item) ==
    { a \in ItemAndDescendants(top) : item \in ProperDescendants(a) }

\* The item is of one balance and nothing above it inside top is of one
\* balance, debit or credit.
MaximalUniform(balance, top, item) ==
    /\ Uniform(balance, item)
    /\ \A a \in ProperAncestorsIn(top, item) :
          ~Uniform("debit", a) /\ ~Uniform("credit", a)

\* C28: in every PL instance that PLConcept.extract_instances produces, an
\* item of the operating income subtree (the operating income included) is
\* in expenses exactly if it and all below it are debit and no item above
\* it inside the subtree is of one balance, and in netSales exactly if the
\* same holds with credit; no item is listed twice or in both lists, no
\* listed item is below another listed item, and an item without balance is
\* in neither list.
C28_MaximalUniformSubtrees ==
    ReturnedPL =>
        \A k \in 1..Len(instances.instances) :
            LET instance == instances.instances[k]
                top == instance.operatingIncome
                nodes == ItemAndDescendants(top)
                expenses == SeqToSet(instance.expenses)
                net_sales == SeqToSet(instance.netSales)
            IN  /\ expenses = { x \in nodes : MaximalUniform("debit", top, x) }
                /\ net_sales = { x \in nodes : MaximalUniform("credit", top, x) }
                /\ Cardinality(expenses) = Len(instance.expenses)
                /\ Cardinality(net_sales) = Len(instance.netSales)
                /\ expenses \cap net_sales = {}
                /\ \A x, y \in expenses \cup net_sales :
                      x # y => x \notin ItemAndDescendants(y)
                /\ \A x \in nodes :
                      x.balance = None => x \notin expenses \cup net_sales

\* An instance was produced whose operating income is of mixed balances and
\* has a listed item with an item of the same balance below it, which is not
\* listed itself.
C28_Witness ==
    /\ ReturnedPL
    /\ \E k \in 1..Len(instances.instances) :
          LET instance == instances.instances[k]
              listed == SeqToSet(instance.expenses) \cup SeqToSet(instance.netSales)
          IN  /\ instance.operatingIncome \notin listed
              /\ \E x \in listed : \E y \in ProperDescendants(x) :
                    /\ y.balance = x.balance
                    /\ y \notin listed

\* An instance was produced whose operating income is of one balance and is
\* the only listed item.
C28_WitnessWhole ==
    /\ ReturnedPL
    /\ \E k \in 1..Len(instances.instances) :
          LET instance == instances.instances[k]
          IN  /\ instance.operatingIncome.items # <<>>
              /\ instance.netSales = <<instance.operatingIncome>>
              /\ instance.expenses = <<>>

\* An instance was produced with both an expense and a net sale listed and
\* an item without balance in the operating income subtree.
C28_WitnessBoth ==
    /\ ReturnedPL
    /\ \E k \in 1..Len(instances.instances) :
          LET instance == instances.instances[k]
          IN  /\ instance.expenses # <<>>
              /\ instance.netSales # <<>>
              /\ \E x \in ItemAndDescendants(instance.operatingIncome) :
                    x.balance = None

(***************************************************************************)
(* Missing and duplicate facts.                                            *)
(***************************************************************************)
\* What the facts of a concept in a context can be: one value, one nil
\* fact, none, two facts of the same value, two facts of different values.
FactKinds == {"value", "nil", "none", "same", "differ"}

\* A net profit or loss tree with an operating income below the root and any
\* facts for every concept in the current context.
InitFacts ==
    /\ pc = "new"
    /\ IdleRest
    /\ IdleRun
    /\ IdleSummary
    /\ \E n \in 2..MaxNodes :
         \E parent \in Parents(n), kind \in [1..n -> FactKinds], prior \in BOOLEAN :
            /\ concepts =
                 [i \in 1..n |->
                    LET q == IF i = 2 THEN "jppfs_cor:OperatingIncome" ELSE PLQNames[i]
                    IN  [qname |-> q, label |-> q, amount |-> i, balance |-> "credit"]]
            /\ to_child = ChildrenOf(n, parent)
            /\ facts = [context \in ContextIds |->
                           IF context = "CurrentYearDuration" THEN kind
                           ELSE [i \in 1..n |-> IF prior THEN "value" ELSE "none"]]
    /\ resolved = [class |-> "PLConcept"]
    /\ instances = None

SpecFacts == InitFacts /\ [][NextPL]_vars

\* The concepts at or below root that have no concept with a nil fact
\* above them, root included: the concepts whose facts _extract_items
\* would look up if nothing raised.
LookedAt(root, context) ==
    { c \in ConceptAndDescendants(root) :
          \A a \in ConceptAndDescendants(root) :
              (a # c /\ c \in ConceptAndDescendants(a)) => facts[context][a] # "nil" }

\* Some concept looked at in some context of the resolved concept has facts
\* of the kind.
SomeLookedAt(kind) ==
    \E k \in 1..Len(resolved.contexts) :
        \E c \in LookedAt(resolved.pl_root_concept[1], resolved.contexts[k]) :
            facts[resolved.contexts[k]][c] = kind

\* The items of a tree built for the concept.
ItemsOfConcept(tree, c) ==
    { x \in ItemAndDescendants(tree) : x.obj.path[Len(x.obj.path)] = c }

\* C29 as stated: whenever a concept at or below the root of the statement
\* has no fact in a context being extracted, extract_instances raises.
C29_AsStated ==
    CalledPL =>
        \A k \in 1..Len(resolved.contexts) :
            \A c \in ConceptAndDescendants(resolved.pl_root_concept[1]) :
                facts[resolved.contexts[k]][c] = "none" => pc = "raised"

\* C29: if a concept at or below the root, with no nil fact above it, has no
\* fact in a context being extracted, or has two facts of different values,
\* extract_instances raises and returns no instances for any context; an
\* IndexError is raised only for a missing fact; and when the call returns,
\* every concept looked at whose fact is not nil, a concept with two facts
\* of the same value included, has exactly one item in the tree of the
\* context, with that value.
C29_MissingOrDifferentFactsRaise ==
    CalledPL =>
        /\ (SomeLookedAt("none") \/ SomeLookedAt("differ")) =>
              /\ pc = "raised"
              /\ instances.exc \in {"IndexError", "ValueError"}
              /\ instances.instances = <<>>
        /\ (pc = "raised" /\ instances.exc = "IndexError") => SomeLookedAt("none")
        /\ pc = "done" =>
              /\ Len(instances.instances) = Len(resolved.contexts)
              /\ \A k \in 1..Len(resolved.contexts) :
                    LET context == resolved.contexts[k]
                        tree == instances.instances[k].profitAndLoss
                        looked == LookedAt(resolved.pl_root_concept[1], context)
                    IN  /\ \A c \in looked :
                              IF facts[context][c] = "nil"
                              THEN ItemsOfConcept(tree, c) = {}
                              ELSE /\ Cardinality(ItemsOfConcept(tree, c)) = 1
                                   /\ \A x \in ItemsOfConcept(tree, c) :
                                         x.value = xValue(c, context)
                        /\ \A x \in ItemAndDescendants(tree) :
                              x.obj.path[Len(x.obj.path)] \in looked

\* extract_instances raised IndexError for a tree where a concept below the
\* root has no fact in the context.
C29_Witness ==
    /\ CalledPL
    /\ pc = "raised"
    /\ instances.exc = "IndexError"
    /\ \E c \in ConceptAndDescendants(resolved.pl_root_concept[1]) :
          /\ c # resolved.pl_root_concept[1]
          /\ facts["CurrentYearDuration"][c] = "none"
          /\ \A other \in DOMAIN concepts :
                other # c => facts["CurrentYearDuration"][other] \in {"value", "same"}

\* extract_instances raised ValueError for a tree whose only irregular
\* concept has two facts of different values.
C29_WitnessDiffer ==
    /\ CalledPL
    /\ pc = "raised"
    /\ instances.exc = "ValueError"
    /\ \E c \in DOMAIN concepts :
          /\ c > 2
          /\ facts["CurrentYearDuration"][c] = "differ"
          /\ \A other \in DOMAIN concepts :
                other # c => facts["CurrentYearDuration"][other] = "value"

\* extract_instances returned for a tree with a concept of two equal facts.
C29_WitnessSame ==
    /\ CalledPL
    /\ pc = "done"
    /\ \E c \in DOMAIN concepts : facts["CurrentYearDuration"][c] = "same"

\* extract_instances returned although a concept, below one with a nil
\* fact, has no fact in the context.
C29_WitnessBelowNil ==
    /\ CalledPL
    /\ pc = "done"
    /\ \E c \in DOMAIN concepts : facts["CurrentYearDuration"][c] = "none"

(***************************************************************************)
(* aggregate_financial_statements only selects.                            *)
(***************************************************************************)
\* Every entry of every series is an instance of the list of its kind of
\* some filing, with the consolidated flag of the series; no instance is in
\* a series twice or in two series.
OnlySelected ==
    /\ \A r \in SeriesTable :
          LET s == aggregated[r.series]
          IN  /\ \A e \in SeqToSet(s) :
                    /\ \E d \in 1..Len(financial_statements_documents) :
                          \E k \in 1..Len(financial_statements_documents[d][r.kind]) :
                              financial_statements_documents[d][r.kind][k] = e
                    /\ e.consolidated = r.consolidated
                    /\ Occurrences(s, e) = 1
    /\ \A r1, r2 \in SeriesTable :
          r1 # r2 =>
              SeqToSet(aggregated[r1.series]) \cap SeqToSet(aggregated[r2.series]) = {}

\* C30: a call of aggregate_financial_statements leaves the filings and
\* their instance lists as they were, and every entry of every series it
\* returns is an instance of the pl, bs or cf list of a filing, unchanged,
\* in a series of its kind and its consolidated flag, and in one series
\* only.
C30_OnlySelects ==
    [][(pc = "start" /\ pipeline = "v2") =>
           /\ financial_statements_documents' = financial_statements_documents
           /\ OnlySelected']_vars

\* The call returned an entry taken from the second filing, and left out an
\* instance of the filings: one of a span that selects no series, or one
\* that lost against an entry of the same period.
C30_Witness ==
    /\ DoneV2
    /\ Len(financial_statements_documents) = 2
    /\ \E r \in SeriesTable :
          \E e \in SeqToSet(aggregated[r.series]) :
              \E k \in 1..Len(financial_statements_documents[2][r.kind]) :
                  financial_statements_documents[2][r.kind][k] = e
    /\ \E x \in InputInstances :
          \A r \in SeriesTable : Occurrences(aggregated[r.series], x) = 0

\* The call returned entries in two series.
C30_WitnessTwoSeries ==
    /\ DoneV2
    /\ \E r1, r2 \in SeriesTable :
          /\ r1 # r2
          /\ aggregated[r1.series] # <<>>
          /\ aggregated[r2.series] # <<>>

====
